---- MODULE Spec2Model ----
(***************************************************************************)
(* Verification model of the worldland node agent.                         *)
(*                                                                         *)
(*   - PortManager     (internal/port/manager.go)                          *)
(*   - RentalExecutor  (internal/rental/executor.go)                       *)
(*   - the container runtime as seen through DockerService                 *)
(*     (internal/container/docker.go)                                      *)
(*   - MiningDaemon    (internal/mining/daemon.go)                         *)
(*   - NodeDaemon's Hub command handlers                                   *)
(*     (internal/services/node_daemon.go)                                  *)
(*                                                                         *)
(* Time is a discrete clock `now`. One tick stands for a grace period (30   *)
(* minutes in cmd/node/main.go); the health timeout (60 s) and the health  *)
(* poll interval (2 s) are shorter than a tick. The timestamps the program *)
(* writes but never reads (Allocation.AllocatedAt, RentalState.StartedAt)  *)
(* are not part of the state.                                              *)
(***************************************************************************)
EXTENDS Integers, Sequences, FiniteSets, Bags, TLC

(***************************************************************************)
(* Bounds of the model                                                     *)
(***************************************************************************)
MaxPort == 2
MaxTime == 1
MaxPortOps == 5
NumCallers == 2
MaxCalls == 3
MaxMiningOps == 4
MaxCommands == 2
MaxSerialCalls == 4
MaxSerialTime == 2
\* the Hub channel: connections made, frames read, attempts of one reconnect loop
MaxConns == 3
MaxFrames == 3
MaxAttempts == 6

(***************************************************************************)
(* Program constants: the port range scaled down, durations in ticks       *)
(***************************************************************************)
MinPort == 1
PortGrace == 1
GracePeriod == 1
\* 60 seconds: over as soon as the clock has moved on
HealthTimeout == 0

SessionIDs == {"s1", "s2"}

\* time.Time pointer that is nil
Nil == -1
\* a map lookup that found no record
NoRecord == -2

PortRange == MinPort..MaxPort
\* arguments a caller may hand to Release: the range and its two neighbours
PortArgs == (MinPort - 1)..(MaxPort + 1)

\* the ids the runtime gives to containers: every id in use belongs to one call
ContainerIDs == 1..MaxCalls

\* MiningConfig.GPUDeviceIDs, in the order of the configuration
ConfiguredGPUs == <<"g1", "g2">>

\* the GPU ids a caller may name
GPUs == {"g1", "g2"}

\* the ids the runtime gives to mining containers
MinerIDs == 1..(Len(ConfiguredGPUs) + 1)

VARIABLES
  now,          \* wall clock (time.Now())
  allocations,  \* PortManager.allocations : port -> Allocation (partial map)
  portEvent,    \* the last PortManager call and what it returned
  holders,      \* per port: grants handed out by Allocate and not yet given back
  portOps,      \* number of PortManager calls made by the standalone driver
  activeRentals,\* RentalExecutor.activeRentals : sessionID -> RentalState (partial map)
  containers,   \* the runtime's containers : containerID -> [name, status]
  calls,        \* the StartRental / StopRental calls in progress (a bag of frames)
  cleanups,     \* the scheduleCleanup goroutines that have been spawned (a bag)
  numCalls,     \* number of executor calls made so far
  ret,          \* what the call that returned in the last step handed to its caller
  miningState,  \* MiningDaemon.state
  miningContainerID, \* MiningDaemon.containerID (0 for "")
  pausedGPUs,   \* MiningDaemon.pausedGPUs : the GPU ids marked as rented
  miners,       \* the runtime's containers named worldland-mining : id -> [gpu, status]
  miningStarts, \* the calls of MiningDaemon.Start that wait for the lock (a bag of origins)
  miningOps,    \* number of MiningDaemon calls made by the standalone driver
  cmd,          \* the Hub command that handleCommand is working on
  numCmds,      \* number of Hub commands received so far
  minedFor,     \* history: the sessions whose start_rental command paused a running miner
  link,         \* mtls.Client and its Listen goroutine: position, connections, backoff
  beat,         \* the reportMetrics goroutine: position, the connection Send writes to
  shutdown      \* main's position in its shutdown sequence

vars == <<now, allocations, portEvent, holders, portOps,
          activeRentals, containers, calls, cleanups, numCalls, ret,
          miningState, miningContainerID, pausedGPUs, miners, miningStarts, miningOps,
          cmd, numCmds, minedFor, link, beat, shutdown>>

execVars == <<activeRentals, containers, calls, cleanups, numCalls, ret>>

portVars == <<allocations, portEvent, holders>>

miningVars == <<miningState, miningContainerID, pausedGPUs, miners, miningStarts, miningOps>>

hubVars == <<cmd, numCmds, minedFor>>

chanVars == <<link, beat>>

\* everything but the channel and the last result
nodeVars == <<now, allocations, portEvent, holders, portOps,
              activeRentals, containers, calls, cleanups, numCalls,
              miningState, miningContainerID, pausedGPUs, miners, miningStarts, miningOps,
              cmd, numCmds, minedFor, shutdown>>

\* the frame of a call: its operation, position and local variables
Frame(op, sid, pc) == [op |-> op, pc |-> pc, sid |-> sid, port |-> 0, cid |-> 0,
                       deadline |-> 0, err |-> "", again |-> FALSE]

\* no call returned in the last step
NoResult == [op |-> "none", sid |-> "", err |-> "", port |-> 0, cid |-> 0, again |-> FALSE]

NoEvent == [op |-> "none", sid |-> "", port |-> 0, ok |-> FALSE, prior |-> NoRecord, at |-> 0, seq |-> 0]

\* NewPortManager: an empty map
InitPortManager ==
  /\ now = 0
  /\ allocations = <<>>
  /\ portEvent = NoEvent
  /\ holders = [p \in PortArgs |-> 0]
  /\ portOps = 0

\* NewRentalExecutor: an empty map; the runtime has no containers
InitExecutor ==
  /\ activeRentals = <<>>
  /\ containers = <<>>
  /\ calls = EmptyBag
  /\ cleanups = EmptyBag
  /\ numCalls = 0
  /\ ret = NoResult

\* no Hub command is being handled
Idle == [type |-> "", sid |-> "", gpu |-> "", pc |-> "idle", err |-> ""]

\* NewMiningDaemon: stopped, no container, no GPU rented
InitMining ==
  /\ miningState = "stopped"
  /\ miningContainerID = 0
  /\ pausedGPUs = {}
  /\ miners = <<>>
  /\ miningStarts = EmptyBag
  /\ miningOps = 0

\* NewNodeDaemon: no command received yet
InitHub ==
  /\ cmd = Idle
  /\ numCmds = 0
  /\ minedFor = {}

\* NewClient, and NodeDaemon before ConnectToHub: no connection, nothing closed
InitChannel ==
  /\ link = [pc |-> "boot", conn |-> 0, lconn |-> 0, open |-> {}, ver |-> <<>>,
             backoff |-> 0, k |-> 0, frame |-> 0, frames |-> 0, rest |-> FALSE,
             ack |-> "", close |-> "idle", log |-> <<>>]
  /\ beat = [pc |-> "wait", target |-> 0, ticked |-> FALSE, sent |-> FALSE]

\* main before the signal: MiningDaemon.stopCh is open
InitMain == shutdown = "running"

Init == InitPortManager /\ InitExecutor /\ InitMining /\ InitHub /\ InitChannel /\ InitMain

(***************************************************************************)
(* PortManager                                                             *)
(***************************************************************************)

\* type Allocation struct { SessionID; ReleasedAt *time.Time }
Allocation(sid) == [SessionID |-> sid, ReleasedAt |-> Nil]

\* variant: the reuse test without the nil check on ReleasedAt
GraceExpired_NoNilCheck(alloc, t) == t - alloc.ReleasedAt >= PortGrace

\* variant: the reuse test without the grace period
GraceExpired_NoGrace(alloc, t) == alloc.ReleasedAt # Nil

\* the reuse test of the scan: released and the grace period has expired
GraceExpired(alloc, t) == alloc.ReleasedAt # Nil /\ t - alloc.ReleasedAt >= PortGrace

\* the scan's test for one port
PortFree(allocs, port, t) ==
  \/ port \notin DOMAIN allocs
  \/ GraceExpired(allocs[port], t)

\* variant: the loop stops one port short (port < pm.maxPort)
RECURSIVE ScanPorts_StopsShort(_, _, _)
ScanPorts_StopsShort(allocs, port, t) ==
  IF port >= MaxPort THEN 0
  ELSE IF PortFree(allocs, port, t) THEN port
  ELSE ScanPorts_StopsShort(allocs, port + 1, t)

\* for port := pm.minPort; port <= pm.maxPort; port++ { ... }
\* yields the port the loop returns, or 0 for ErrNoAvailablePorts
RECURSIVE ScanPorts(_, _, _)
ScanPorts(allocs, port, t) ==
  IF port > MaxPort THEN 0
  ELSE IF PortFree(allocs, port, t) THEN port
  ELSE ScanPorts(allocs, port + 1, t)

\* map update pm.allocations[port] = &Allocation{...}
PutAllocation(allocs, port, sid) ==
  [q \in (DOMAIN allocs) \cup {port} |->
     IF q = port THEN Allocation(sid) ELSE allocs[q]]

\* variant: Release without the already-released check
ReleaseAllowed_NoReleasedCheck(allocs, port) == port \in DOMAIN allocs

\* the guard of Release: the port has a record that is not yet released
ReleaseAllowed(allocs, port) ==
  port \in DOMAIN allocs /\ allocs[port].ReleasedAt = Nil

\* alloc.ReleasedAt = &now
MarkReleased(allocs, port, t) ==
  [allocs EXCEPT ![port].ReleasedAt = t]

\* what a port's record looked like before a call:
\* NoRecord, Nil (a record still in use) or the time it was released
PriorOf(allocs, port) ==
  IF port \notin DOMAIN allocs THEN NoRecord ELSE allocs[port].ReleasedAt

\* func (pm *PortManager) Allocate(sessionID string) (int, error)
Allocate(sid) ==
  LET port == ScanPorts(allocations, MinPort, now) IN
    /\ portOps < MaxPortOps
    /\ portOps' = portOps + 1
    /\ IF port = 0
       THEN /\ allocations' = allocations
            /\ holders' = holders
            /\ portEvent' = [op |-> "allocate", sid |-> sid, port |-> 0, ok |-> FALSE,
                             prior |-> NoRecord, at |-> now, seq |-> 1 - portEvent.seq]
       ELSE /\ allocations' = PutAllocation(allocations, port, sid)
            /\ holders' = [holders EXCEPT ![port] = @ + 1]
            /\ portEvent' = [op |-> "allocate", sid |-> sid, port |-> port, ok |-> TRUE,
                             prior |-> PriorOf(allocations, port), at |-> now,
                             seq |-> 1 - portEvent.seq]
    /\ UNCHANGED <<now, execVars, miningVars, hubVars, chanVars, shutdown>>

\* func (pm *PortManager) Release(port int) error
Release(port) ==
  /\ portOps < MaxPortOps
  /\ portOps' = portOps + 1
  /\ IF ReleaseAllowed(allocations, port)
     THEN /\ allocations' = MarkReleased(allocations, port, now)
          /\ holders' = [holders EXCEPT ![port] = IF @ > 0 THEN @ - 1 ELSE 0]
          /\ portEvent' = [op |-> "release", sid |-> "", port |-> port, ok |-> TRUE,
                           prior |-> Nil, at |-> now, seq |-> 1 - portEvent.seq]
     ELSE /\ allocations' = allocations
          /\ holders' = holders
          /\ portEvent' = [op |-> "release", sid |-> "", port |-> port, ok |-> FALSE,
                           prior |-> PriorOf(allocations, port), at |-> now,
                           seq |-> 1 - portEvent.seq]
  /\ UNCHANGED <<now, execVars, miningVars, hubVars, chanVars, shutdown>>

\* time passes
Tick ==
  /\ now < MaxTime
  /\ now' = now + 1
  /\ ret' = NoResult
  /\ UNCHANGED <<portVars, portOps, chanVars, shutdown, activeRentals, containers, calls, cleanups, numCalls>>
  /\ UNCHANGED <<miningVars, hubVars>>

NextPort ==
  \/ \E sid \in SessionIDs : Allocate(sid)
  \/ \E port \in PortArgs : Release(port)
  \/ Tick

SpecPort == Init /\ [][NextPort]_vars

(***************************************************************************)
(* Container runtime, as the executor sees it through DockerService        *)
(***************************************************************************)

\* a partial map without one key
DropKey(m, k) == [x \in (DOMAIN m) \ {k} |-> m[x]]

\* a partial map with one key set
PutKey(m, k, v) == [x \in (DOMAIN m) \cup {k} |-> IF x = k THEN v ELSE m[x]]

\* a bag with one more / one fewer copy of x
AddTo(bag, x) == bag (+) SetToBag({x})
TakeFrom(bag, x) == bag (-) SetToBag({x})

\* the container ids some call, session record or cleanup goroutine still holds
HeldIDs ==
  {f.cid : f \in BagToSet(calls)} \cup {t.cid : t \in BagToSet(cleanups)}
    \cup {activeRentals[s].ContainerID : s \in DOMAIN activeRentals}

\* resp.ID of ContainerCreate: an id that no container has and nobody holds
FreshID == CHOOSE id \in ContainerIDs : id \notin (DOMAIN containers) \cup HeldIDs

\* ContainerCreate(..., cfg.SessionID): the session id is the container name,
\* and the runtime refuses a name that is in use
NameInUse(name) == \E id \in DOMAIN containers : containers[id].name = name

\* ContainerRemove with Force: the container, if there is one, is gone
RemoveContainer(cs, id) == IF id \in DOMAIN cs THEN DropKey(cs, id) ELSE cs

\* what Inspect can report
InspectStates == {"created", "running", "exited", "dead"}
InspectHealth == {"", "starting", "healthy", "unhealthy", "none"}
\* what waitForHealth reads of an inspect result: info.State and, of a running
\* container, info.Health
InspectResults ==
  {<<state, IF state = "running" THEN health ELSE "">> :
     state \in InspectStates, health \in InspectHealth}


(***************************************************************************)
(* RentalExecutor                                                          *)
(***************************************************************************)

\* type RentalState struct { SessionID; ContainerID; SSHPort; StoppedAt }
RentalState(cid, port) ==
  [ContainerID |-> cid, SSHPort |-> port, StoppedAt |-> Nil]

\* variant: the duplicate check lets a stopped session be started again
SessionPresent_RunningOnly(sid) ==
  sid \in DOMAIN activeRentals /\ activeRentals[sid].StoppedAt = Nil

\* _, exists := re.activeRentals[req.SessionID]
SessionPresent(sid) == sid \in DOMAIN activeRentals

\* one call moves from frame f to frame g
Step(f, g) == calls' = AddTo(TakeFrom(calls, f), g)

\* the handler of a Hub command, if it made this call, now waits for its return
Called(c) == IF c.pc = "call" THEN [c EXCEPT !.pc = "wait"] ELSE c

\* the handler of a Hub command, if it made this call, gets the result
Answered(c, res) ==
  IF c.pc = "call" \/ c.pc = "wait" THEN [c EXCEPT !.pc = "returned", !.err = res] ELSE c

\* what the function op, running in the call with frame f, hands to its caller
Result(op, f, res) ==
  [op |-> op, sid |-> f.sid, err |-> res, port |-> f.port, cid |-> f.cid, again |-> f.again]

\* the call with frame f returns res to its caller
Return(f, res) ==
  /\ calls' = TakeFrom(calls, f)
  /\ ret' = Result(f.op, f, res)
  /\ cmd' = Answered(cmd, res)

\* a step in which no call returns
NoReturn == ret' = NoResult /\ cmd' = cmd

\* cleanupOnError(): where the rollback starts
Rollback(f, cid, e) ==
  [f EXCEPT !.pc = IF cid # 0 THEN "rollbackRemove" ELSE "rollbackRelease",
            !.cid = cid, !.err = e, !.deadline = 0]

\* StartRental, lines 88-94: the duplicate check under the lock
EnterStartRental(sid) ==
  IF SessionPresent(sid)
  THEN /\ calls' = calls
       /\ ret' = Result("start", Frame("start", sid, ""), "ErrSessionAlreadyActive")
       /\ cmd' = Answered(cmd, "ErrSessionAlreadyActive")
  ELSE /\ calls' = AddTo(calls, Frame("start", sid, "allocate"))
       /\ ret' = NoResult
       /\ cmd' = Called(cmd)

\* a caller of the node's HTTP API invokes StartRental
StartRental(sid) ==
  /\ BagCardinality(calls) < NumCallers
  /\ numCalls < MaxCalls
  /\ numCalls' = numCalls + 1
  /\ EnterStartRental(sid)
  /\ UNCHANGED <<now, portVars, portOps, chanVars, shutdown, activeRentals, containers, cleanups>>
  /\ UNCHANGED <<miningVars, numCmds, minedFor>>

\* StartRental, lines 96-100: re.portManager.Allocate(req.SessionID)
StartAllocate(f) ==
  /\ f.pc = "allocate"
  /\ LET port == ScanPorts(allocations, MinPort, now) IN
       IF port = 0
       THEN /\ Return(f, "ErrNoAvailablePorts")
            /\ allocations' = allocations
       ELSE /\ Step(f, [f EXCEPT !.pc = "create", !.port = port])
            /\ allocations' = PutAllocation(allocations, port, f.sid)
            /\ NoReturn
  /\ UNCHANGED <<now, portEvent, holders, portOps, chanVars, shutdown, activeRentals, containers,
                 cleanups, numCalls>>
  /\ UNCHANGED <<miningVars, numCmds, minedFor>>

\* StartRental, lines 123-127: re.docker.CreateContainer
StartCreate(f) ==
  /\ f.pc = "create"
  /\ \/ /\ ~NameInUse(f.sid)
        /\ containers' = PutKey(containers, FreshID, [name |-> f.sid, status |-> "created"])
        /\ Step(f, [f EXCEPT !.pc = "start", !.cid = FreshID])
     \/ /\ Step(f, Rollback(f, 0, "ErrCreate"))
        /\ UNCHANGED containers
  /\ NoReturn
  /\ UNCHANGED <<now, portVars, portOps, chanVars, shutdown, activeRentals, cleanups, numCalls>>
  /\ UNCHANGED <<miningVars, numCmds, minedFor>>

\* StartRental, lines 130-133: re.docker.StartContainer; on success waitForHealth is
\* entered and fixes its deadline (line 167)
StartStart(f) ==
  /\ f.pc = "start"
  /\ \/ /\ f.cid \in DOMAIN containers
        /\ containers' = [containers EXCEPT ![f.cid].status = "running"]
        /\ Step(f, [f EXCEPT !.pc = "health", !.deadline = now + HealthTimeout])
     \/ /\ Step(f, Rollback(f, f.cid, "ErrStart"))
        /\ UNCHANGED containers
  /\ NoReturn
  /\ UNCHANGED <<now, portVars, portOps, chanVars, shutdown, activeRentals, cleanups, numCalls>>
  /\ UNCHANGED <<miningVars, numCmds, minedFor>>

\* variant: a container whose health check is still starting counts as healthy
HealthVerdict_StartingOk(state, health) ==
  IF state = "running" /\ health \in {"", "healthy", "starting"} THEN "healthy"
  ELSE IF state = "running" /\ health = "unhealthy" THEN "ErrContainerNotHealthy"
  ELSE IF state = "exited" \/ state = "dead" THEN "ErrContainerStopped"
  ELSE "retry"

\* waitForHealth, lines 189-211: what one inspect result means for the poll
HealthVerdict(state, health) ==
  IF state = "running" /\ (health = "" \/ health = "healthy") THEN "healthy"
  ELSE IF state = "running" /\ health = "starting" THEN "retry"
  ELSE IF state = "running" /\ health = "unhealthy" THEN "ErrContainerNotHealthy"
  ELSE IF state = "exited" \/ state = "dead" THEN "ErrContainerStopped"
  ELSE "retry"

\* what an iteration of the poll loop of waitForHealth ends with ("retry": it sleeps
\* and polls again), the inspect result it saw, if it got one, and whether it
\* found the deadline passed
PollResult(f, res, state, health) ==
  [op |-> "waitForHealth", sid |-> f.sid, err |-> res, port |-> f.port, cid |-> f.cid,
   again |-> f.again, state |-> state, health |-> health, late |-> now > f.deadline]

\* waitForHealth returns e; StartRental wraps it and starts the rollback (lines 136-139)
HealthFails(f, e, state, health) ==
  /\ Step(f, Rollback(f, f.cid, "ErrHealthCheck"))
  /\ ret' = PollResult(f, e, state, health)
  /\ cmd' = cmd

\* waitForHealth, lines 169-212: one iteration of the poll loop. The sleep between
\* two polls (healthInterval) is shorter than a clock tick, so the next iteration
\* may run at the same instant or after any number of ticks.
WaitForHealth(f) ==
  /\ f.pc = "health"
  /\ IF now > f.deadline
     THEN HealthFails(f, "ErrContainerNotHealthy", "", "")
     ELSE \/ HealthFails(f, "ErrCancelled", "", "")
          \/ HealthFails(f, "ErrInspect", "", "")
          \/ /\ f.cid \in DOMAIN containers
             /\ \E info \in InspectResults :
                  LET state == info[1]
                      health == info[2]
                      v == HealthVerdict(state, health) IN
                    IF v = "healthy"
                    THEN /\ Step(f, [f EXCEPT !.pc = "record", !.deadline = 0])
                         /\ ret' = PollResult(f, "ok", state, health)
                         /\ cmd' = cmd
                    ELSE IF v = "retry"
                         THEN /\ calls' = calls
                              /\ ret' = PollResult(f, "retry", state, health)
                              /\ cmd' = cmd
                         ELSE HealthFails(f, v, state, health)
  /\ UNCHANGED <<now, portVars, portOps, chanVars, shutdown, activeRentals, containers, cleanups,
                 numCalls>>
  /\ UNCHANGED <<miningVars, numCmds, minedFor>>

\* cleanupOnError, lines 105-108: RemoveContainer(containerID, force)
RollbackRemove(f) ==
  /\ f.pc = "rollbackRemove"
  /\ containers' = RemoveContainer(containers, f.cid)
  /\ Step(f, [f EXCEPT !.pc = "rollbackRelease"])
  /\ NoReturn
  /\ UNCHANGED <<now, portVars, portOps, chanVars, shutdown, activeRentals, cleanups, numCalls>>
  /\ UNCHANGED <<miningVars, numCmds, minedFor>>

\* cleanupOnError, line 110: portManager.Release(sshPort); then the error is returned
RollbackRelease(f) ==
  /\ f.pc = "rollbackRelease"
  /\ allocations' = IF ReleaseAllowed(allocations, f.port)
                    THEN MarkReleased(allocations, f.port, now)
                    ELSE allocations
  /\ Return(f, f.err)
  /\ UNCHANGED <<now, portEvent, holders, portOps, chanVars, shutdown, activeRentals, containers,
                 cleanups, numCalls>>
  /\ UNCHANGED <<miningVars, numCmds, minedFor>>

\* StartRentalRequest.Host: the host name that the request for a session carries
RequestHost(sid) == IF sid = "s1" THEN "node1.example" ELSE "node2.example"

\* variant: the command line without the port
SSHCommand_NoPort(port, host) == "ssh ubuntu@" \o host

\* fmt.Sprintf("ssh -p %d ubuntu@%s", sshPort, req.Host), line 157
SSHCommand(port, host) == "ssh -p " \o ToString(port) \o " ubuntu@" \o host

\* StartRental, lines 154-160: the ConnectionInfo that a successful call returns
ConnectionInfo(f) ==
  [op |-> "start", sid |-> f.sid, err |-> "ok", port |-> f.port, cid |-> f.cid,
   again |-> f.again, host |-> RequestHost(f.sid), user |-> "ubuntu",
   command |-> SSHCommand(f.port, RequestHost(f.sid))]

\* StartRental, lines 141-162: record the session and return the connection info
StartRecord(f) ==
  /\ f.pc = "record"
  /\ activeRentals' = PutKey(activeRentals, f.sid, RentalState(f.cid, f.port))
  /\ calls' = TakeFrom(calls, f)
  /\ ret' = ConnectionInfo(f)
  /\ cmd' = Answered(cmd, "ok")
  /\ UNCHANGED <<now, portVars, portOps, chanVars, shutdown, containers, cleanups, numCalls>>
  /\ UNCHANGED <<miningVars, numCmds, minedFor>>

\* a scheduleCleanup goroutine for this session is still asleep
CleanupPending(sid) ==
  \E t \in BagToSet(cleanups) : t.sid = sid /\ t.pc = "sleep"

\* StopRental, lines 217-227: look the session up and mark it stopped, under the lock
EnterStopRental(sid) ==
  IF ~SessionPresent(sid)
  THEN /\ calls' = calls
       /\ ret' = Result("stop", Frame("stop", sid, ""), "ErrSessionNotFound")
       /\ cmd' = Answered(cmd, "ErrSessionNotFound")
       /\ activeRentals' = activeRentals
  ELSE /\ calls' = AddTo(calls, [Frame("stop", sid, "stop") EXCEPT
                                   !.cid = activeRentals[sid].ContainerID,
                                   !.port = activeRentals[sid].SSHPort,
                                   !.again = CleanupPending(sid)])
       /\ activeRentals' = [activeRentals EXCEPT ![sid].StoppedAt = now]
       /\ ret' = NoResult
       /\ cmd' = Called(cmd)

\* a caller of the node's HTTP API invokes StopRental
StopRental(sid) ==
  /\ BagCardinality(calls) < NumCallers
  /\ numCalls < MaxCalls
  /\ numCalls' = numCalls + 1
  /\ EnterStopRental(sid)
  /\ UNCHANGED <<now, portVars, portOps, chanVars, shutdown, containers, cleanups>>
  /\ UNCHANGED <<miningVars, numCmds, minedFor>>

\* go re.scheduleCleanup(sessionID, containerID, sshPort): the goroutine, asleep
CleanupTask(f) ==
  [sid |-> f.sid, cid |-> f.cid, port |-> f.port, wake |-> now + GracePeriod, pc |-> "sleep"]

\* StopRental, lines 230-237: stop the container, spawn scheduleCleanup, return
StopContainer(f) ==
  /\ f.pc = "stop"
  /\ \/ /\ f.cid \in DOMAIN containers
        /\ containers' = [containers EXCEPT ![f.cid].status = "exited"]
        /\ cleanups' = AddTo(cleanups, CleanupTask(f))
        /\ Return(f, "ok")
     \/ /\ Return(f, "ErrStop")
        /\ UNCHANGED <<containers, cleanups>>
  /\ UNCHANGED <<now, portVars, portOps, chanVars, shutdown, activeRentals, numCalls>>
  /\ UNCHANGED <<miningVars, numCmds, minedFor>>

\* scheduleCleanup, lines 242-246: the sleep is over, RemoveContainer(containerID, force)
CleanupRemove(t) ==
  /\ t.pc = "sleep"
  /\ now >= t.wake
  /\ containers' = RemoveContainer(containers, t.cid)
  /\ cleanups' = AddTo(TakeFrom(cleanups, t), [t EXCEPT !.pc = "release"])
  /\ NoReturn
  /\ UNCHANGED <<now, portVars, portOps, chanVars, shutdown, activeRentals, calls, numCalls>>
  /\ UNCHANGED <<miningVars, numCmds, minedFor>>

\* scheduleCleanup, line 249: portManager.Release(sshPort)
CleanupRelease(t) ==
  /\ t.pc = "release"
  /\ allocations' = IF ReleaseAllowed(allocations, t.port)
                    THEN MarkReleased(allocations, t.port, now)
                    ELSE allocations
  /\ cleanups' = AddTo(TakeFrom(cleanups, t), [t EXCEPT !.pc = "delete"])
  /\ NoReturn
  /\ UNCHANGED <<now, portEvent, holders, portOps, chanVars, shutdown, activeRentals, containers,
                 calls, numCalls>>
  /\ UNCHANGED <<miningVars, numCmds, minedFor>>

\* scheduleCleanup, lines 252-254: delete(re.activeRentals, sessionID); the goroutine ends
CleanupDelete(t) ==
  /\ t.pc = "delete"
  /\ activeRentals' = IF t.sid \in DOMAIN activeRentals
                      THEN DropKey(activeRentals, t.sid)
                      ELSE activeRentals
  /\ cleanups' = TakeFrom(cleanups, t)
  /\ NoReturn
  /\ UNCHANGED <<now, portVars, portOps, chanVars, shutdown, containers, calls, numCalls>>
  /\ UNCHANGED <<miningVars, numCmds, minedFor>>

\* func (re *RentalExecutor) GetRentalStatus(sessionID string) (*RentalState, error)
GetRentalStatus(sid) ==
  IF sid \in DOMAIN activeRentals THEN activeRentals[sid] ELSE "ErrSessionNotFound"


Next ==
  \/ \E sid \in SessionIDs : StartRental(sid)
  \/ \E f \in BagToSet(calls) : StartAllocate(f)
  \/ \E f \in BagToSet(calls) : StartCreate(f)
  \/ \E f \in BagToSet(calls) : StartStart(f)
  \/ \E f \in BagToSet(calls) : WaitForHealth(f)
  \/ \E f \in BagToSet(calls) : RollbackRemove(f)
  \/ \E f \in BagToSet(calls) : RollbackRelease(f)
  \/ \E f \in BagToSet(calls) : StartRecord(f)
  \/ \E sid \in SessionIDs : StopRental(sid)
  \/ \E f \in BagToSet(calls) : StopContainer(f)
  \/ \E t \in BagToSet(cleanups) : CleanupRemove(t)
  \/ \E t \in BagToSet(cleanups) : CleanupRelease(t)
  \/ \E t \in BagToSet(cleanups) : CleanupDelete(t)
  \/ Tick

Spec == Init /\ [][Next]_vars

(***************************************************************************)
(* MiningDaemon                                                            *)
(*                                                                         *)
(* Start, Stop and PauseForRental hold m.mu from entry to return, runtime  *)
(* calls included, so each is one step. ResumeAfterRental and the monitor  *)
(* release the lock before they call Start; PauseForRental hands its       *)
(* restart to a goroutine. Those calls of Start wait in miningStarts.      *)
(***************************************************************************)

\* what a MiningDaemon function hands to its caller; by tells who called it
MiningResult(op, by, res) ==
  [op |-> op, sid |-> by, err |-> res, port |-> 0, cid |-> miningContainerID', again |-> FALSE]

\* for _, gpu := range m.config.GPUDeviceIDs { if !m.pausedGPUs[gpu] { append } }
AvailableGPUs(paused) == SelectSeq(ConfiguredGPUs, LAMBDA g : g \notin paused)

\* variant: the runtime lets two containers carry the name worldland-mining
MinerNameInUse_Never == FALSE

\* ContainerCreate(..., "worldland-mining"): the runtime refuses a name that is in use
MinerNameInUse == DOMAIN miners # {}

\* resp.ID of ContainerCreate: an id that no mining container has
FreshMinerID == CHOOSE id \in MinerIDs : id \notin (DOMAIN miners) \cup {miningContainerID}

\* Start, lines 61-132, with m.mu held throughout
Start(by) ==
  /\ pausedGPUs' = pausedGPUs
  /\ IF miningState = "running"
     THEN /\ UNCHANGED <<miningState, miningContainerID, miners>>
          /\ ret' = MiningResult("Start", by, "ok")
     ELSE IF AvailableGPUs(pausedGPUs) = <<>>
     THEN /\ miningState' = "paused"
          /\ UNCHANGED <<miningContainerID, miners>>
          /\ ret' = MiningResult("Start", by, "ok")
     ELSE \/ /\ UNCHANGED <<miningState, miningContainerID, miners>>
             /\ ret' = MiningResult("Start", by, "ErrCreate")
          \/ /\ ~MinerNameInUse
             /\ UNCHANGED <<miningState, miningContainerID, miners>>
             /\ ret' = MiningResult("Start", by, "ErrStart")
          \/ /\ ~MinerNameInUse
             /\ miners' = PutKey(miners, FreshMinerID,
                                 [gpu |-> Head(AvailableGPUs(pausedGPUs)), status |-> "running"])
             /\ miningContainerID' = FreshMinerID
             /\ miningState' = "running"
             /\ ret' = MiningResult("Start", by, "ok")

\* Stop, lines 135-159, with m.mu held throughout
Stop ==
  /\ pausedGPUs' = pausedGPUs
  /\ miningStarts' = miningStarts
  /\ IF miningState = "stopped"
     THEN UNCHANGED <<miningState, miningContainerID, miners>>
     ELSE /\ miners' = RemoveContainer(miners, miningContainerID)
          /\ miningContainerID' = 0
          /\ miningState' = "stopped"
  /\ ret' = MiningResult("Stop", "caller", "ok")

\* PauseForRental, lines 164-207: the restart goroutine is spawned at line 196
PauseForRental(gpus, by) ==
  /\ pausedGPUs' = pausedGPUs \cup gpus
  /\ IF miningState = "running" /\ miningContainerID # 0
     THEN /\ miners' = RemoveContainer(miners, miningContainerID)
          /\ miningContainerID' = 0
          /\ IF AvailableGPUs(pausedGPUs') = <<>>
             THEN /\ miningState' = "paused"
                  /\ miningStarts' = miningStarts
             ELSE /\ miningState' = miningState
                  /\ miningStarts' = AddTo(miningStarts, "restart")
     ELSE UNCHANGED <<miningState, miningContainerID, miners, miningStarts>>
  /\ ret' = MiningResult("PauseForRental", by, "ok")

\* ResumeAfterRental, lines 210-228: the lock is released before Start is called
ResumeAfterRental(gpus, by) ==
  /\ pausedGPUs' = pausedGPUs \ gpus
  /\ UNCHANGED <<miningState, miningContainerID, miners>>
  /\ IF miningState = "paused" \/ miningState = "stopped"
     THEN /\ miningStarts' = AddTo(miningStarts, by)
          /\ ret' = NoResult
     ELSE /\ miningStarts' = miningStarts
          /\ ret' = MiningResult("ResumeAfterRental", by, "ok")

\* MonitorLoop, lines 275-296: one tick; info.State is read from the runtime,
\* and the inspect call itself may fail
MonitorLoop ==
  /\ CopiesIn("monitor", miningStarts) = 0
  /\ pausedGPUs' = pausedGPUs
  /\ miners' = miners
  /\ IF miningState = "running" /\ miningContainerID # 0
     THEN \/ /\ miningContainerID \in DOMAIN miners
             /\ miners[miningContainerID].status = "running"
             /\ UNCHANGED <<miningState, miningContainerID, miningStarts>>
             /\ ret' = NoResult
          \/ /\ miningContainerID' = 0
             /\ miningState' = "stopped"
             /\ miningStarts' = AddTo(miningStarts, "monitor")
             /\ ret' = NoResult
     ELSE /\ UNCHANGED <<miningState, miningContainerID, miningStarts>>
          /\ ret' = NoResult

\* everything but the MiningDaemon and ret
NotMining == <<now, portVars, portOps, chanVars, shutdown, activeRentals, containers, calls, cleanups, numCalls,
               hubVars>>

\* a caller invokes Start (cmd/node/main.go:433)
CallStart ==
  /\ miningOps < MaxMiningOps
  /\ miningOps' = miningOps + 1
  /\ Start("caller")
  /\ miningStarts' = miningStarts
  /\ UNCHANGED NotMining

\* a caller invokes Stop (cmd/node/main.go:490)
CallStop ==
  /\ miningOps < MaxMiningOps
  /\ miningOps' = miningOps + 1
  /\ Stop
  /\ UNCHANGED NotMining

\* a caller invokes PauseForRental
CallPauseForRental(gpus) ==
  /\ miningOps < MaxMiningOps
  /\ miningOps' = miningOps + 1
  /\ PauseForRental(gpus, "caller")
  /\ UNCHANGED NotMining

\* a caller invokes ResumeAfterRental
CallResumeAfterRental(gpus) ==
  /\ miningOps < MaxMiningOps
  /\ miningOps' = miningOps + 1
  /\ ResumeAfterRental(gpus, "resume")
  /\ UNCHANGED NotMining

\* a waiting call of Start gets the lock and runs
RunStart(by) ==
  /\ miningStarts' = TakeFrom(miningStarts, by)
  /\ Start(by)
  /\ UNCHANGED <<miningOps, NotMining>>

\* the monitor's ticker fires
MonitorTick ==
  /\ MonitorLoop
  /\ UNCHANGED <<miningOps, NotMining>>

\* the mining container exits on its own (the miner crashes)
MinerDies ==
  /\ \E id \in DOMAIN miners :
       /\ miners[id].status = "running"
       /\ miners' = [miners EXCEPT ![id].status = "exited"]
  /\ ret' = NoResult
  /\ UNCHANGED <<miningState, miningContainerID, pausedGPUs, miningStarts, miningOps, NotMining>>

NextMining ==
  \/ CallStart
  \/ CallStop
  \/ \E gpus \in SUBSET GPUs : CallPauseForRental(gpus)
  \/ \E gpus \in SUBSET GPUs : CallResumeAfterRental(gpus)
  \/ \E by \in BagToSet(miningStarts) : RunStart(by)
  \/ MonitorTick
  \/ MinerDies

SpecMining == Init /\ [][NextMining]_vars

(***************************************************************************)
(* NodeDaemon: the handlers of Hub commands                                *)
(*                                                                         *)
(* Client.Listen reads one command, runs handleCommand to its end and      *)
(* writes the ack before it reads the next one, so one command is in work  *)
(* at a time. The executor's goroutines, the MiningDaemon's restarts and   *)
(* its monitor run beside the handler. start_job and stop_job are handled  *)
(* by the same code as start_rental and stop_rental.                       *)
(***************************************************************************)

\* the types of command the Hub may send; "ping" stands for any unknown type
CommandTypes == {"start_rental", "stop_rental", "start_job", "stop_job", "ping"}

\* variant: a switch whose default branch starts a rental
HandlerFor_NoDefault(type) ==
  IF type \in {"stop_rental", "stop_job"} THEN "stop_rental" ELSE "start_rental"

\* handleCommand, lines 97-111: the handler the switch picks; start_job and stop_job
\* are legacy aliases
HandlerFor(type) ==
  IF type \in {"start_rental", "start_job"} THEN "start_rental"
  ELSE IF type \in {"stop_rental", "stop_job"} THEN "stop_rental"
  ELSE "unknown"

\* mtls.CommandAck: err is Status, text is Error (a prefix and the cause)
Ack(c, status, text) ==
  [op |-> "ack", sid |-> c.sid, err |-> status, port |-> 0, cid |-> 0, again |-> FALSE,
   type |-> c.type, text |-> text]

\* handleCommand, lines 95-105: the command is logged and handed to its handler
Dispatched(c) ==
  [op |-> "dispatch", sid |-> c.sid, err |-> "", port |-> 0, cid |-> 0, again |-> FALSE,
   type |-> c.type, text |-> <<>>]

\* variant: the handler never pauses mining
FirstStep_NoPause(gpu) == "call"

\* handleStartRental, line 151: if d.miningDaemon != nil && gpuDeviceID != ""
FirstStep(gpu) == IF gpu # "" THEN "pause" ELSE "call"

\* the mining container that the daemon tracks runs on this GPU
MiningOn(gpu) ==
  /\ miningState = "running"
  /\ miningContainerID \in DOMAIN miners
  /\ miners[miningContainerID].gpu = gpu
  /\ miners[miningContainerID].status = "running"

\* everything but the handler's command, ret and the MiningDaemon
NotHandler == <<now, portVars, portOps, chanVars, shutdown, activeRentals, containers, calls, cleanups, numCalls>>

\* Listen reads a command and handleCommand dispatches it (lines 94-128, 204-216)
Receive(type, sid, gpu) ==
  /\ cmd.pc = "idle"
  /\ numCmds < MaxCommands
  /\ numCmds' = numCmds + 1
  /\ LET h == HandlerFor(type)
         c == [Idle EXCEPT !.type = type, !.sid = sid,
                           !.gpu = IF h = "start_rental" THEN gpu ELSE ""] IN
       IF h = "unknown"
       THEN /\ cmd' = Idle
            /\ ret' = Ack(c, "error", <<"unknown command">>)
       ELSE IF sid = ""
       THEN /\ cmd' = Idle
            /\ ret' = Ack(c, "error", <<"missing session_id">>)
       ELSE /\ cmd' = [c EXCEPT !.type = h,
                                !.pc = IF h = "start_rental" THEN FirstStep(gpu) ELSE "call"]
            /\ ret' = Dispatched(c)
  /\ minedFor' = IF HandlerFor(type) = "start_rental" /\ sid # "" /\ ~SessionPresent(sid)
                 THEN minedFor \ {sid}
                 ELSE minedFor
  /\ UNCHANGED <<NotHandler, miningVars>>

\* handleStartRental, lines 150-157: PauseForRental([gpuDeviceID]); its error is only logged
HandlePause ==
  /\ cmd.pc = "pause"
  /\ PauseForRental({cmd.gpu}, "hub")
  /\ cmd' = [cmd EXCEPT !.pc = "call"]
  /\ minedFor' = IF MiningOn(cmd.gpu) /\ ~SessionPresent(cmd.sid)
                 THEN minedFor \cup {cmd.sid}
                 ELSE minedFor
  /\ UNCHANGED <<NotHandler, miningOps, numCmds>>

\* handleStartRental, line 163, and handleStopRental, line 223: the call of the executor
HandleCall ==
  /\ cmd.pc = "call"
  /\ IF cmd.type = "start_rental"
     THEN EnterStartRental(cmd.sid) /\ activeRentals' = activeRentals
     ELSE EnterStopRental(cmd.sid)
  /\ UNCHANGED <<now, portVars, portOps, chanVars, shutdown, containers, cleanups, numCalls>>
  /\ UNCHANGED <<miningVars, numCmds, minedFor>>

\* variant: a failed stop is acknowledged with status error
StopAckStatus_Error(e) == IF e = "ok" THEN "ok" ELSE "error"

\* handleStopRental, lines 226-230 and 244-246: Status of the ack, whatever StopRental returned
StopAckStatus(e) == "ok"

\* handleStartRental, lines 172-200, and handleStopRental, lines 223-242: the executor
\* has returned. A failed stop is acknowledged at once; after a successful one the
\* handler calls ResumeAfterRental with an empty list.
HandleReturn ==
  /\ cmd.pc = "returned"
  /\ IF cmd.type = "start_rental"
     THEN /\ cmd' = Idle
          /\ ret' = IF cmd.err = "ok"
                    THEN Ack(cmd, "ok", <<>>)
                    ELSE Ack(cmd, "error", <<"failed to start rental", cmd.err>>)
          /\ UNCHANGED miningVars
     ELSE IF cmd.err # "ok"
     THEN /\ cmd' = Idle
          /\ ret' = Ack(cmd, StopAckStatus(cmd.err), <<"stop warning", cmd.err>>)
          /\ UNCHANGED miningVars
     ELSE /\ ResumeAfterRental({}, "hub")
          /\ cmd' = [cmd EXCEPT !.pc = "resume"]
          /\ miningOps' = miningOps
  /\ UNCHANGED <<NotHandler, numCmds, minedFor>>

\* ResumeAfterRental, line 223: return m.Start(ctx), called by the handler
HandleResumeStart ==
  /\ cmd.pc = "resume"
  /\ CopiesIn("hub", miningStarts) > 0
  /\ miningStarts' = TakeFrom(miningStarts, "hub")
  /\ Start("hub")
  /\ cmd' = [cmd EXCEPT !.err = ret'.err]
  /\ UNCHANGED <<NotHandler, miningOps, numCmds, minedFor>>

\* handleStopRental, lines 244-250: the ack of a successful stop
HandleAck ==
  /\ cmd.pc = "resume"
  /\ CopiesIn("hub", miningStarts) = 0
  /\ cmd' = Idle
  /\ ret' = Ack(cmd, StopAckStatus("ok"), <<>>)
  /\ UNCHANGED <<NotHandler, miningVars, numCmds, minedFor>>

\* cmd/node/main.go:433: the one call of Start when the node comes up
BootStart ==
  /\ miningOps = 0
  /\ CallStart

NextHub ==
  \/ \E type \in CommandTypes, sid \in SessionIDs \cup {""}, gpu \in GPUs \cup {""} :
       Receive(type, sid, gpu)
  \/ HandlePause
  \/ HandleCall
  \/ HandleReturn
  \/ HandleResumeStart
  \/ HandleAck
  \/ \E f \in BagToSet(calls) : StartAllocate(f)
  \/ \E f \in BagToSet(calls) : StartCreate(f)
  \/ \E f \in BagToSet(calls) : StartStart(f)
  \/ \E f \in BagToSet(calls) : WaitForHealth(f)
  \/ \E f \in BagToSet(calls) : RollbackRemove(f)
  \/ \E f \in BagToSet(calls) : RollbackRelease(f)
  \/ \E f \in BagToSet(calls) : StartRecord(f)
  \/ \E f \in BagToSet(calls) : StopContainer(f)
  \/ \E t \in BagToSet(cleanups) : CleanupRemove(t)
  \/ \E t \in BagToSet(cleanups) : CleanupRelease(t)
  \/ \E t \in BagToSet(cleanups) : CleanupDelete(t)
  \/ BootStart
  \/ \E by \in BagToSet(miningStarts) \ {"hub"} : RunStart(by)
  \/ MonitorTick
  \/ MinerDies
  \/ Tick

SpecHub == Init /\ [][NextHub]_vars

(***************************************************************************)
(* RentalExecutor, called by one caller at a time over a longer time       *)
(***************************************************************************)

\* a caller invokes StartRental when no other call is in progress
SerialStart(sid) ==
  /\ calls = EmptyBag
  /\ numCalls < MaxSerialCalls
  /\ numCalls' = numCalls + 1
  /\ EnterStartRental(sid)
  /\ UNCHANGED <<now, portVars, portOps, chanVars, shutdown, activeRentals, containers, cleanups>>
  /\ UNCHANGED <<miningVars, numCmds, minedFor>>

\* a caller invokes StopRental when no other call is in progress
SerialStop(sid) ==
  /\ calls = EmptyBag
  /\ numCalls < MaxSerialCalls
  /\ numCalls' = numCalls + 1
  /\ EnterStopRental(sid)
  /\ UNCHANGED <<now, portVars, portOps, chanVars, shutdown, containers, cleanups>>
  /\ UNCHANGED <<miningVars, numCmds, minedFor>>

\* time passes
SerialTick ==
  /\ now < MaxSerialTime
  /\ now' = now + 1
  /\ ret' = NoResult
  /\ UNCHANGED <<portVars, portOps, chanVars, shutdown, activeRentals, containers, calls, cleanups, numCalls>>
  /\ UNCHANGED <<miningVars, hubVars>>

NextSerial ==
  \/ \E sid \in SessionIDs : SerialStart(sid)
  \/ \E f \in BagToSet(calls) : StartAllocate(f)
  \/ \E f \in BagToSet(calls) : StartCreate(f)
  \/ \E f \in BagToSet(calls) : StartStart(f)
  \/ \E f \in BagToSet(calls) : WaitForHealth(f)
  \/ \E f \in BagToSet(calls) : RollbackRemove(f)
  \/ \E f \in BagToSet(calls) : RollbackRelease(f)
  \/ \E f \in BagToSet(calls) : StartRecord(f)
  \/ \E sid \in SessionIDs : SerialStop(sid)
  \/ \E f \in BagToSet(calls) : StopContainer(f)
  \/ \E t \in BagToSet(cleanups) : CleanupRemove(t)
  \/ \E t \in BagToSet(cleanups) : CleanupRelease(t)
  \/ \E t \in BagToSet(cleanups) : CleanupDelete(t)
  \/ SerialTick

SpecSerial == Init /\ [][NextSerial]_vars

(***************************************************************************)
(* mtls.Client: the channel to the Hub, and the heartbeat written on it    *)
(***************************************************************************)

\* crypto/tls: the wire numbers of the protocol versions
TLS12 == 771
TLS13 == 772

\* variant: the client accepts TLS 1.2 as well
MinVersion_TLS12 == TLS12
\* Connect, line 180: tls.Config.MinVersion
MinVersion == TLS13
\* Connect, line 181: tls.Config.MaxVersion
MaxVersion == TLS13

\* Listen, lines 216-217: the first and the longest wait between attempts, seconds
InitialBackoff == 5
MaxBackoff == 60

\* what the Hub's listener may offer to a dial: a set of versions, none when it is down
HubOffers == {{}, {TLS12}, {TLS13}, {TLS12, TLS13}}

\* what OnCommand may do: return an ack of either status, or panic
HandlerOutcomes == {"ok", "error", "panic"}

\* the frames a Read may return: a command, bytes that are no JSON command, or
\* the first 4096 bytes of a longer message
FrameKinds == {"command", "garbage", "oversized"}

\* tls.Dial and Handshake, lines 184-193: the version agreed with the Hub, 0 when
\* the dial or the handshake fails
Handshake(offer) ==
  LET common == {v \in offer : MinVersion <= v /\ v <= MaxVersion}
  IN IF common = {} THEN 0 ELSE CHOOSE v \in common : \A w \in common : w <= v

\* variant: the wait doubles without a cap
NextBackoff_NoCap(b) == b * 2
\* Listen, lines 227-230: the wait after one more failed attempt
NextBackoff(b) == IF b * 2 > MaxBackoff THEN MaxBackoff ELSE b * 2

\* variant: the loops never see stopCh closed
Stopped_Never == FALSE
\* lines 209, 220 and 258: the receive from stopCh succeeds once Close has closed it
Stopped == link.close # "idle"

\* the result of a step of the channel, as the log lines and return values show it
ChanResult(op, conn, err, info) ==
  [op |-> op, sid |-> "", err |-> err, port |-> 0, cid |-> conn, again |-> FALSE, info |-> info]

\* Connect, lines 176-200, on a listener offering the versions in offer
Connect(offer, pcOk, pcFail) ==
  LET v == Handshake(offer)
      new == Len(link.ver) + 1
  IN IF v = 0
     THEN /\ link' = [link EXCEPT !.pc = pcFail,
                                  !.backoff = IF pcFail = "backoff" THEN NextBackoff(@) ELSE @,
                                  !.k = IF pcFail = "backoff" THEN @ + 1 ELSE @]
          /\ ret' = ChanResult("Connect", 0, IF offer = {} THEN "ErrDial" ELSE "ErrHandshake", offer)
          /\ beat' = beat
     ELSE /\ link' = [link EXCEPT !.pc = pcOk, !.conn = new, !.open = @ \cup {new},
                                  !.ver = Append(@, v), !.log = <<>>]
          /\ ret' = ChanResult("Connect", new, "ok", offer)
          /\ beat' = [beat EXCEPT !.ticked = FALSE, !.sent = FALSE]

\* ConnectToHub (main.go 1426-1441): the first connect; the daemon does not start
\* when it fails
InitialConnect(offer) ==
  /\ link.pc = "boot"
  /\ Connect(offer, "enter", "aborted")
  /\ UNCHANGED nodeVars

\* listenOnce, lines 245-253: take the current connection, return when there is none
ListenEnter ==
  /\ link.pc = "enter"
  /\ link' = [link EXCEPT !.lconn = link.conn,
                          !.pc = IF link.conn = 0 THEN "check" ELSE "select"]
  /\ ret' = NoResult
  /\ UNCHANGED <<nodeVars, beat>>

\* the frame can be read in this position of the listener
ReadReady_Pipelined(l) == l.pc \in {"read", "handle"}
\* listenOnce, lines 257-261: the one goroutine reads when it is back in the loop
ReadReady(l) == l.pc = "read"

\* listenOnce, lines 257-260: the select at the top of the loop
ListenSelect ==
  /\ link.pc = "select"
  /\ link' = IF Stopped
             THEN [link EXCEPT !.pc = "check", !.open = @ \ {link.lconn}]
             ELSE [link EXCEPT !.pc = "read"]
  /\ ret' = ChanResult("select", link.lconn, IF Stopped THEN "stopped" ELSE "", 0)
  /\ UNCHANGED <<nodeVars, beat>>

\* listenOnce, lines 261-265: Read fails (the connection is closed or broken); the
\* deferred Close runs
ReadError ==
  /\ ReadReady(link)
  /\ link.lconn \notin link.open \/ Len(link.ver) < MaxConns
  /\ link' = [link EXCEPT !.pc = "check", !.open = @ \ {link.lconn}, !.rest = FALSE]
  /\ ret' = ChanResult("Read", link.lconn, "ErrRead", 0)
  /\ UNCHANGED <<nodeVars, beat>>

\* listenOnce, lines 261-271: Read returns a frame; a command goes to the handler,
\* anything else is logged and the loop goes on
ReadFrame(kind) ==
  /\ ReadReady(link)
  /\ link.lconn \in link.open
  /\ link.frames < MaxFrames
  /\ link.rest => kind = "garbage"
  /\ IF kind = "command"
     THEN /\ link' = [link EXCEPT !.pc = "handle", !.frames = @ + 1, !.frame = link.frames + 1,
                                  !.log = Append(@, <<"cmd", link.frames + 1>>)]
          /\ ret' = ChanResult("Read", link.lconn, "ok", kind)
     ELSE /\ link' = [link EXCEPT !.pc = "select", !.frames = @ + 1,
                                  !.rest = (kind = "oversized")]
          /\ ret' = ChanResult("Read", link.lconn, "ErrParse", kind)
  /\ UNCHANGED <<nodeVars, beat>>

\* listenOnce, lines 273-279: OnCommand runs in the listener's goroutine; nothing
\* recovers a panic, which ends the process and with it every connection
RunHandler(outcome) ==
  /\ link.pc = "handle"
  /\ link' = IF outcome = "panic"
             THEN [link EXCEPT !.pc = "crashed", !.open = {}]
             ELSE [link EXCEPT !.pc = "ack", !.ack = outcome]
  /\ ret' = ChanResult("OnCommand", link.lconn, outcome, link.frame)
  /\ beat' = IF outcome = "panic" THEN [beat EXCEPT !.pc = "done"] ELSE beat
  /\ UNCHANGED nodeVars

\* variant: a failed write of the ack ends listenOnce, and the ack is kept for the
\* connection that the reconnect makes
AfterAck_Kept(l, ok) ==
  IF ok
  THEN [l EXCEPT !.pc = "select", !.ack = "", !.log = Append(@, <<"ack", l.frame>>)]
  ELSE [l EXCEPT !.pc = "check", !.open = @ \ {l.lconn}]

\* listenOnce, lines 281-285: the listener after the write of the ack; a failed
\* write is logged, the ack is dropped and the loop goes on
AfterAck(l, ok) ==
  [l EXCEPT !.pc = "select", !.ack = "", !.log = Append(@, <<"ack", l.frame>>)]

\* listenOnce, lines 281-285: the ack is written; a failed write is logged
WriteAck(ok) ==
  /\ link.pc = "ack"
  /\ ok => link.lconn \in link.open
  /\ link' = AfterAck(link, ok)
  /\ ret' = ChanResult("WriteAck", link.lconn, IF ok THEN "ok" ELSE "ErrWrite", link.frame)
  /\ UNCHANGED <<nodeVars, beat>>

\* Listen, lines 207-217: after listenOnce, stop or start the reconnect loop
ListenCheck ==
  /\ link.pc = "check"
  /\ link' = IF Stopped
             THEN [link EXCEPT !.pc = "done"]
             ELSE [link EXCEPT !.pc = "backoff", !.backoff = InitialBackoff, !.k = 1]
  /\ ret' = ChanResult("Listen", 0, IF Stopped THEN "stopped" ELSE "lost", 0)
  /\ UNCHANGED <<nodeVars, beat>>

\* Listen, lines 219-223: wait for the backoff or for stopCh
BackoffWait ==
  /\ link.pc = "backoff"
  /\ link' = [link EXCEPT !.pc = IF Stopped THEN "done" ELSE "connect"]
  /\ ret' = ChanResult("backoff", 0, IF Stopped THEN "stopped" ELSE "", link.backoff)
  /\ UNCHANGED <<nodeVars, beat>>

\* Listen, lines 225-238: one reconnect attempt
Reconnect(offer) ==
  /\ link.pc = "connect"
  /\ Handshake(offer) # 0 \/ link.k < MaxAttempts \/ Stopped
  /\ Connect(offer, "enter", "backoff")
  /\ UNCHANGED nodeVars

\* Close, line 304, called by NodeDaemon.Stop: close(stopCh)
CloseStop ==
  /\ link.pc \notin {"boot", "aborted", "crashed"}
  /\ link.close = "idle"
  /\ link' = [link EXCEPT !.close = "stopping"]
  /\ ret' = NoResult
  /\ UNCHANGED <<nodeVars, beat>>

\* Close, lines 305-309: close the current connection
CloseConn ==
  /\ link.pc # "crashed"
  /\ link.close = "stopping"
  /\ link' = [link EXCEPT !.close = "closed", !.open = @ \ {link.conn}]
  /\ ret' = ChanResult("Close", link.conn, "", 0)
  /\ UNCHANGED <<nodeVars, beat>>

\* reportMetrics (main.go 1465-1488), one tick: GetMetrics, then Send up to its
\* read of the current connection (client.go 291-297)
HeartbeatTick(metricsOk) ==
  /\ link.pc \notin {"boot", "aborted", "crashed"}
  /\ beat.pc = "wait"
  /\ IF Stopped
     THEN /\ beat' = [beat EXCEPT !.pc = "done"]
          /\ ret' = ChanResult("reportMetrics", 0, "stopped", 0)
     ELSE IF ~metricsOk
     THEN /\ beat' = [beat EXCEPT !.ticked = TRUE]
          /\ ret' = ChanResult("reportMetrics", 0, "ErrMetrics", 0)
     ELSE IF link.conn = 0
     THEN /\ beat' = [beat EXCEPT !.ticked = TRUE]
          /\ ret' = ChanResult("Send", 0, "ErrNotConnected", 0)
     ELSE /\ beat' = [beat EXCEPT !.pc = "write", !.target = link.conn, !.ticked = TRUE]
          /\ ret' = NoResult
  /\ UNCHANGED <<nodeVars, link>>

\* Send, lines 298-300: the write of the heartbeat
HeartbeatWrite(ok) ==
  /\ beat.pc = "write"
  /\ ok => beat.target \in link.open
  /\ beat' = [beat EXCEPT !.pc = "wait", !.target = 0,
                          !.sent = IF beat.target = link.conn THEN TRUE ELSE @]
  /\ link' = link
  /\ ret' = ChanResult("Send", beat.target, IF ok THEN "ok" ELSE "ErrWrite", 0)
  /\ UNCHANGED nodeVars

NextChannel ==
  \/ \E offer \in HubOffers : InitialConnect(offer)
  \/ ListenEnter
  \/ ListenSelect
  \/ ReadError
  \/ \E kind \in FrameKinds : ReadFrame(kind)
  \/ \E outcome \in HandlerOutcomes : RunHandler(outcome)
  \/ \E ok \in BOOLEAN : WriteAck(ok)
  \/ ListenCheck
  \/ BackoffWait
  \/ \E offer \in HubOffers : Reconnect(offer)
  \/ CloseStop
  \/ CloseConn
  \/ \E metricsOk \in BOOLEAN : HeartbeatTick(metricsOk)
  \/ \E ok \in BOOLEAN : HeartbeatWrite(ok)

SpecChannel == Init /\ [][NextChannel]_vars

\* the steps of the Listen goroutine
ListenerStep ==
  \/ ListenEnter
  \/ ListenSelect
  \/ ReadError
  \/ \E kind \in FrameKinds : ReadFrame(kind)
  \/ \E outcome \in HandlerOutcomes : RunHandler(outcome)
  \/ \E ok \in BOOLEAN : WriteAck(ok)
  \/ ListenCheck
  \/ BackoffWait
  \/ \E offer \in HubOffers : Reconnect(offer)

\* the channel with goroutines that are scheduled: the Listen goroutine takes its
\* next step when it has one (a Read on a closed connection returns, a handler and
\* a dial return), and Close, once it has closed stopCh, goes on to close the
\* connection
SpecChannelFair == SpecChannel /\ WF_vars(ListenerStep) /\ WF_vars(CloseConn)

(***************************************************************************)
(* Properties of the PortManager                                           *)
(***************************************************************************)

\* the ports whose allocation is active (ReleasedAt = nil)
ActivePorts == {p \in DOMAIN allocations : allocations[p].ReleasedAt = Nil}

\* this step is a PortManager call of the given kind
PortCall(op) == portEvent'.seq # portEvent.seq /\ portEvent'.op = op

\* C4: after any sequence of allocate and release calls the ports with an
\* active allocation lie in [min_port, max_port], no port is held by two
\* callers at once, and allocate never returns a port whose allocation is
\* active at the time of the call.
PortUniqueness ==
  /\ ActivePorts \subseteq PortRange
  /\ \A p \in PortArgs : holders[p] <= 1
  /\ \A p \in PortArgs : holders[p] = 1 <=> p \in ActivePorts
  /\ (portEvent.op = "allocate" /\ portEvent.ok) => portEvent.prior # Nil

\* two ports are held at once, the last of them re-used after a release
PortUniquenessWitness ==
  /\ Cardinality(ActivePorts) >= 2
  /\ portEvent.op = "allocate" /\ portEvent.ok /\ portEvent.prior >= 0

\* C5: a port released at time t is not returned by allocate before
\* t + grace_period, and from t + grace_period on the scan accepts it again.
PortGraceProperty ==
  /\ (portEvent.op = "allocate" /\ portEvent.ok /\ portEvent.prior >= 0)
        => portEvent.at >= portEvent.prior + PortGrace
  /\ \A p \in DOMAIN allocations :
        allocations[p].ReleasedAt # Nil =>
          ((now >= allocations[p].ReleasedAt + PortGrace)
             <=> ScanPorts(allocations, p, now) = p)

\* a released port handed out again exactly when its grace period ended
PortGraceWitness ==
  /\ portEvent.op = "allocate" /\ portEvent.ok
  /\ portEvent.prior >= 0
  /\ portEvent.at = portEvent.prior + PortGrace

\* the ports of the range that were never used or whose grace period is over
FreePorts(allocs, t) ==
  {p \in PortRange :
     \/ p \notin DOMAIN allocs
     \/ allocs[p].ReleasedAt # Nil /\ allocs[p].ReleasedAt + PortGrace <= t}

Lowest(S) == CHOOSE p \in S : \A q \in S : p <= q

\* C6: allocate(session_id) returns the lowest port of the range that was
\* never used or whose released_at + grace_period <= now, records an active
\* allocation for session_id under exactly that port and leaves the records
\* of all other ports unchanged; with no such port it fails and changes nothing.
AllocateLowestFree ==
  [][PortCall("allocate") =>
       LET F == FreePorts(allocations, now)
           p == portEvent'.port
       IN IF F = {}
          THEN ~portEvent'.ok /\ allocations' = allocations
          ELSE /\ portEvent'.ok
               /\ p = Lowest(F)
               /\ DOMAIN allocations' = (DOMAIN allocations) \cup {p}
               /\ allocations'[p].SessionID = portEvent'.sid
               /\ allocations'[p].ReleasedAt = Nil
               /\ \A q \in DOMAIN allocations : q # p => allocations'[q] = allocations[q]
  ]_vars

\* allocate returned the highest port of the range while a lower one was in use
AllocateLowestFreeWitness ==
  /\ portEvent.op = "allocate" /\ portEvent.ok
  /\ portEvent.port = MaxPort
  /\ MinPort \in ActivePorts

\* C7: release on a port with an active allocation marks it released at now
\* and succeeds; release on a port never allocated or already released fails
\* and leaves every allocation record unchanged.
ReleaseContract ==
  [][PortCall("release") =>
       LET p == portEvent'.port
           active == p \in DOMAIN allocations /\ allocations[p].ReleasedAt = Nil
       IN IF active
          THEN /\ portEvent'.ok
               /\ DOMAIN allocations' = DOMAIN allocations
               /\ allocations'[p].ReleasedAt = now
               /\ allocations'[p].SessionID = allocations[p].SessionID
               /\ \A q \in DOMAIN allocations : q # p => allocations'[q] = allocations[q]
          ELSE ~portEvent'.ok /\ allocations' = allocations
  ]_vars

\* a second release of a port, later than the first, was refused
ReleaseContractWitness ==
  /\ portEvent.op = "release" /\ ~portEvent.ok
  /\ portEvent.prior >= 0
  /\ portEvent.at > portEvent.prior
  /\ allocations[portEvent.port].ReleasedAt = portEvent.prior


(***************************************************************************)
(* Properties of the RentalExecutor                                        *)
(***************************************************************************)

\* the port has a record and it is marked released
Released(allocs, port) == port \in DOMAIN allocs /\ allocs[port].ReleasedAt # Nil

\* the ports with an active allocation made for a session
PortsHeldFor(sid) ==
  {p \in DOMAIN allocations :
     allocations[p].ReleasedAt = Nil /\ allocations[p].SessionID = sid}

\* the containers that carry a session's name
ContainersOf(sid) == {id \in DOMAIN containers : containers[id].name = sid}

\* a StartRental call has just returned an error after its port was allocated
StartFailedAfterAllocate == ret.op = "start" /\ ret.err # "ok" /\ ret.port # 0

\* C1: when a start_rental call returns an error after its port was
\* allocated, that port has been released, the container the call created is
\* gone, and the executor's map has no entry for the call's session_id.
RollbackComplete ==
  StartFailedAfterAllocate
    => /\ Released(allocations, ret.port)
       /\ ret.cid # 0 => ret.cid \notin DOMAIN containers
       /\ ret.sid \notin DOMAIN activeRentals

\* this step is the entry of a StartRental call for the session
StartInvoked(sid) ==
  /\ numCalls' = numCalls + 1
  /\ \/ ret'.op = "start" /\ ret'.sid = sid
     \/ \E x \in BagToSet(calls') : x.op = "start" /\ x.sid = sid /\ calls' = AddTo(calls, x)

\* C2: start_rental for a session_id that is in the executor's map, running
\* or stopped and waiting for its cleanup, returns SessionAlreadyActive and
\* changes neither the port allocations, nor the containers, nor the map.
DuplicateStartRejected ==
  [][\A sid \in DOMAIN activeRentals :
       StartInvoked(sid)
         => /\ ret'.op = "start" /\ ret'.err = "ErrSessionAlreadyActive"
            /\ ret'.port = 0 /\ ret'.cid = 0
            /\ allocations' = allocations
            /\ containers' = containers
            /\ activeRentals' = activeRentals
            /\ calls' = calls
            /\ cleanups' = cleanups
  ]_vars

\* a start was refused for a session that is stopped and still waits for its cleanup
DuplicateStartRejectedWitness ==
  /\ ret.op = "start" /\ ret.err = "ErrSessionAlreadyActive"
  /\ ret.sid \in DOMAIN activeRentals
  /\ activeRentals[ret.sid].StoppedAt # Nil
  /\ CleanupPending(ret.sid)
  /\ activeRentals[ret.sid].SSHPort \in PortsHeldFor(ret.sid)

\* C3: whatever the interleaving of start_rental calls that carry the same
\* session_id, at most one port is allocated and at most one container
\* exists for that session_id.
SessionUniqueness ==
  \A sid \in SessionIDs :
    /\ Cardinality(PortsHeldFor(sid)) <= 1
    /\ Cardinality(ContainersOf(sid)) <= 1

\* C8: after a successful stop_rental the session stays in the map with
\* stopped_at set, its container exists and its port is allocated until
\* grace_period has passed since that stop; the cleanup then removes the
\* container, releases the port and erases the entry, and get_status
\* returns SessionNotFound.
GraceThenCleanup ==
  /\ [](\A t \in BagToSet(cleanups) :
          (t.pc = "sleep" /\ now < t.wake)
            => /\ t.sid \in DOMAIN activeRentals
               /\ activeRentals[t.sid].StoppedAt # Nil
               /\ activeRentals[t.sid].ContainerID = t.cid
               /\ t.cid \in DOMAIN containers
               /\ t.port \in DOMAIN allocations
               /\ allocations[t.port].ReleasedAt = Nil)
  /\ [][\A t \in BagToSet(cleanups) :
          /\ (t.pc = "sleep" /\ cleanups' = AddTo(TakeFrom(cleanups, t), [t EXCEPT !.pc = "release"]))
               => t.cid \notin DOMAIN containers'
          /\ (t.pc = "release" /\ cleanups' = AddTo(TakeFrom(cleanups, t), [t EXCEPT !.pc = "delete"]))
               => Released(allocations', t.port)
          /\ (t.pc = "delete" /\ cleanups' = TakeFrom(cleanups, t))
               => GetRentalStatus(t.sid)' = "ErrSessionNotFound"
     ]_vars

\* C9: a stop_rental issued for a session whose earlier stop succeeded and
\* whose cleanup has not fired yet returns ok; SessionNotFound is returned
\* only when no such cleanup is waiting.
SecondStopOk ==
  ret.op = "stop"
    => /\ ret.again => ret.err = "ok"
       /\ ret.err = "ErrSessionNotFound" => ~ret.again

\* C10: every session on which stop_rental was called is erased in the end.
\* Only scheduleCleanup erases an entry, so a stopped session must have a
\* cleanup goroutine, or a stop call that can still spawn one.
StoppedSessionIsCleaned ==
  \A sid \in DOMAIN activeRentals :
    activeRentals[sid].StoppedAt # Nil
      => \/ \E t \in BagToSet(cleanups) : t.sid = sid
         \/ \E f \in BagToSet(calls) : f.op = "stop" /\ f.sid = sid /\ f.pc = "stop"

(***************************************************************************)
(* Properties of the MiningDaemon                                          *)
(***************************************************************************)

\* the mining containers the runtime is running
RunningMiners == {id \in DOMAIN miners : miners[id].status = "running"}

\* MonitorLoop, line 277: the only state in which a monitor tick does anything
MonitorWatches == miningState = "running" /\ miningContainerID # 0

\* C12: whenever no operation holds the lock, state = Running if and only if
\* container_id is non-empty.
RunningIffContainer ==
  (miningState = "running") <=> (miningContainerID # 0)

\* C13: outside the lock-protected window of pause_for_rental, no running
\* mining container sits on a GPU that is a member of rented_gpus.
MiningExclusivity ==
  \A id \in RunningMiners : miners[id].gpu \notin pausedGPUs

\* C14: at any time at most one mining container exists (created and not
\* yet removed), whatever the interleaving of the operations, the restart
\* goroutine and the monitor.
OneMiningContainer ==
  Cardinality(DOMAIN miners) <= 1

\* the monitor has lost track of a live container, and a later Start was
\* refused because the container still carries the name
OneMiningContainerWitness ==
  /\ ret.op = "Start" /\ ret.err = "ErrCreate"
  /\ miningContainerID = 0
  /\ RunningMiners # {}

\* C15: after pause_for_rental on a Running supervisor with a GPU left
\* un-rented, mining is restarted: once the restart it spawned has run and
\* returned without error while a configured GPU is un-rented, state =
\* Running with a container on a GPU outside rented_gpus.
RestartAfterPause ==
  (ret.op = "Start" /\ ret.sid = "restart" /\ ret.err = "ok"
     /\ AvailableGPUs(pausedGPUs) # <<>>)
    => /\ miningState = "running"
       /\ miningContainerID \in RunningMiners
       /\ miners[miningContainerID].gpu \notin pausedGPUs

\* C17: when the start triggered by the monitor fails, mining is retried on
\* later monitor ticks: after such a failure the monitor still finds the
\* state in which a tick acts.
MonitorRetries ==
  (ret.op = "Start" /\ ret.sid = "monitor" /\ ret.err # "ok") => MonitorWatches

(***************************************************************************)
(* Properties of the sessions' ports                                       *)
(***************************************************************************)

\* the cleanup goroutine spawned by a stop of this session's container has released
\* the port and is about to delete the session
OwnCleanupReleased(sid) ==
  \E t \in BagToSet(cleanups) :
    /\ t.sid = sid
    /\ t.cid = activeRentals[sid].ContainerID
    /\ t.pc = "delete"

\* the PortManager holds this session's port for this session, not released
PortHeldFor(sid) ==
  LET port == activeRentals[sid].SSHPort IN
    /\ port \in DOMAIN allocations
    /\ allocations[port].SessionID = sid
    /\ allocations[port].ReleasedAt = Nil

\* C11: every session in activeRentals has its SSHPort allocated to it and not
\* released in the PortManager, until the session's own cleanup has released the port.
SessionOwnsPort ==
  \A sid \in DOMAIN activeRentals : OwnCleanupReleased(sid) \/ PortHeldFor(sid)

(***************************************************************************)
(* Properties of the Hub command handlers                                  *)
(***************************************************************************)

\* the handler of a start_rental command that names a GPU is past PauseForRental
PauseReturned ==
  /\ cmd.type = "start_rental"
  /\ cmd.gpu # ""
  /\ cmd.pc \in {"call", "wait", "returned"}

\* C16: with mining running on a GPU, a start_rental command for that GPU and then
\* a stop_rental command for the same session leave mining running with a
\* container (or with the monitor's restart under way) when the stop_rental
\* handler, whose resume has not failed, is about to write its ack.
MiningResumedAfterStop ==
  (/\ cmd.type = "stop_rental"
   /\ cmd.pc = "resume"
   /\ CopiesIn("hub", miningStarts) = 0
   /\ cmd.err = "ok"
   /\ cmd.sid \in minedFor)
  => \/ miningState = "running" /\ miningContainerID # 0
     \/ CopiesIn("monitor", miningStarts) > 0

ResumeAfterStop ==
  [][(cmd.type = "stop_rental" /\ cmd.pc = "returned") =>
       (cmd'.pc = "returned" \/ cmd'.pc = "resume")]_vars

\* the handler of a start_rental command is at work on a session that is in
\* activeRentals, before its call of StartRental or with the call rejected; the
\* GPU it names is marked as rented, as the first delivery of the command left it
ReplayInWork ==
  /\ cmd.type = "start_rental"
  /\ SessionPresent(cmd.sid)
  /\ cmd.gpu \in pausedGPUs \cup {""}
  /\ \/ cmd.pc \in {"pause", "call"}
     \/ cmd.pc = "returned" /\ cmd.err = "ErrSessionAlreadyActive"

\* C20: no step of the handler of a start_rental command for a session that is in
\* activeRentals changes the sessions, the port allocations, the containers, or the
\* MiningDaemon's state, container and rented GPUs, and its ack has status error
\* and names the session as already active.
ReplayedStartUnchanged ==
  [][(ReplayInWork /\ cmd' # cmd)
     => /\ UNCHANGED <<activeRentals, allocations, containers>>
        /\ UNCHANGED <<miningState, miningContainerID, miners, pausedGPUs>>
        /\ cmd'.pc = "idle" =>
             /\ ret'.err = "error"
             /\ ret'.text = <<"failed to start rental", "ErrSessionAlreadyActive">>]_vars

\* C21: the ack of a stop_rental command that carries a session id has status ok,
\* whether StopRental succeeded or failed; the ack of a failed stop carries the
\* warning with the error StopRental returned.
StopAlwaysAcked ==
  [][(cmd.type = "stop_rental" /\ cmd.pc # "idle" /\ cmd'.pc = "idle")
     => /\ ret'.op = "ack"
        /\ ret'.err = "ok"
        /\ cmd.pc = "returned" => ret'.text = <<"stop warning", cmd.err>>]_vars

\* a stop_rental whose container stop failed has been acknowledged
StopAlwaysAckedWitness ==
  /\ ret.op = "ack"
  /\ ret.type = "stop_rental"
  /\ ret.text = <<"stop warning", "ErrStop">>

(***************************************************************************)
(* Properties of the health poll                                           *)
(***************************************************************************)

\* the inspect result that an iteration of the poll saw
SawHealthy == ret.state = "running" /\ ret.health \in {"", "healthy"}
SawStopped == ret.state \in {"exited", "dead"}
SawUnhealthy == ret.state = "running" /\ ret.health = "unhealthy"
SawNothing == ret.state = ""

\* C30, as claimed: an iteration of the health poll ends the poll with success
\* exactly when its inspect reports running with health healthy or empty, with
\* ContainerStopped exactly when it reports exited or dead, with
\* ContainerNotHealthy exactly when the timeout has elapsed, or on cancellation;
\* in every other case, running with health starting among them, it polls again.
HealthPollEndsAsClaimed ==
  ret.op = "waitForHealth" =>
    \/ ret.err = "ok" /\ SawHealthy /\ ~ret.late
    \/ ret.err = "ErrContainerStopped" /\ SawStopped /\ ~ret.late
    \/ ret.err = "ErrContainerNotHealthy" /\ ret.late
    \/ ret.err = "ErrCancelled" /\ SawNothing /\ ~ret.late
    \/ ret.err = "retry" /\ ~SawHealthy /\ ~SawStopped /\ ~SawNothing /\ ~ret.late

\* C30, amended: as above, and the poll also ends with ContainerNotHealthy as soon
\* as an inspect reports running with health unhealthy, and with an error as soon
\* as the inspect call itself fails.
HealthPollEnds ==
  ret.op = "waitForHealth" =>
    \/ ret.err = "ok" /\ SawHealthy /\ ~ret.late
    \/ ret.err = "ErrContainerStopped" /\ SawStopped /\ ~ret.late
    \/ ret.err = "ErrContainerNotHealthy" /\ (ret.late \/ SawUnhealthy)
    \/ ret.err = "ErrCancelled" /\ SawNothing /\ ~ret.late
    \/ ret.err = "ErrInspect" /\ SawNothing /\ ~ret.late
    \/ /\ ret.err = "retry"
       /\ ~SawHealthy /\ ~SawStopped /\ ~SawUnhealthy /\ ~SawNothing /\ ~ret.late

\* an iteration of the poll found the timeout elapsed while the container ran
HealthPollEndsWitness ==
  /\ ret.op = "waitForHealth"
  /\ ret.err = "ErrContainerNotHealthy"
  /\ ret.late
  /\ \E id \in DOMAIN containers : id = ret.cid /\ containers[id].status = "running"

(***************************************************************************)
(* Properties of the Hub channel                                           *)
(***************************************************************************)

\* C22: on one connection the commands are handled one at a time in the order
\* received: the ack of a command is written before the next frame is read, so
\* reads and acks alternate, each ack answers the command read just before it, and
\* the commands and their acks follow in the order the frames arrived.
CommandsInOrder ==
  \A j \in 1..Len(link.log) :
    /\ link.log[j][1] = "ack" => j > 1 /\ link.log[j - 1] = <<"cmd", link.log[j][2]>>
    /\ (link.log[j][1] = "cmd" /\ j > 1)
         => link.log[j - 1][1] = "ack" /\ link.log[j - 1][2] < link.log[j][2]

\* two commands were read and acknowledged on one connection
CommandsInOrderWitness ==
  /\ Len(link.log) >= 4
  /\ link.log[4][1] = "ack"

\* C23: any error of a read from or a write to the Hub connection, the failed
\* write of an ack included, closes that connection and starts the reconnect
\* loop: right after the failed call the connection is closed, and the listener
\* has left it for the reconnect loop or is already on a newer connection.
ErrorClosesConnection ==
  (ret.op \in {"Read", "WriteAck", "Send"} /\ ret.err \in {"ErrRead", "ErrWrite"} /\ ~Stopped)
    => /\ ret.cid \notin link.open
       /\ link.pc \in {"check", "backoff", "connect"} \/ link.conn # ret.cid

\* C24: an inbound frame that is no valid command (bytes that do not parse, or the
\* first 4 KiB of a longer message) makes the channel close the connection and
\* go to reconnect, and no command is dispatched from it.
BadFrameClosesConnection ==
  (ret.op = "Read" /\ ret.err = "ErrParse")
    => /\ ret.cid \notin link.open
       /\ link.pc = "check"

\* C28: a failure inside a command handler, a panic included, does not end the
\* daemon: the listener goes on to write an ack with status error for that
\* command.
HandlerFailureAcked ==
  (ret.op = "OnCommand" /\ ret.err \in {"error", "panic"})
    => /\ link.pc = "ack"
       /\ link.ack = "error"

\* the wait the schedule 5, 10, 20, 40, 60, 60, ... gives to the k-th attempt
ScheduledWait(k) == IF 5 * 2^(k - 1) < 60 THEN 5 * 2^(k - 1) ELSE 60

\* C25: after a connection loss the wait before the k-th consecutive reconnect
\* attempt is min(5 * 2^(k-1), 60) seconds, where k counts from 1 again after
\* each loss that follows a successful reconnect.
BackoffSchedule ==
  /\ link.pc \in {"backoff", "connect"} => link.backoff = ScheduledWait(link.k)
  /\ (ret.op = "backoff" /\ ret.err = "") => ret.info = ScheduledWait(link.k)

\* the sixth attempt in a row, after the loss of a connection that a reconnect
\* had made, was started after a wait of 60 seconds
BackoffScheduleWitness ==
  /\ ret.op = "backoff"
  /\ ret.err = ""
  /\ ret.info = 60
  /\ link.k = 6
  /\ Len(link.ver) >= 2

\* C26: no command is read and no ack or heartbeat is written on a connection
\* that negotiated a version below TLS 1.3, and a connect, the first one or a
\* reconnect attempt, to a Hub that offers only TLS 1.2 fails and makes no
\* connection.
TLSFloor ==
  /\ (ret.op \in {"Read", "WriteAck", "Send"} /\ ret.err \in {"ok", "ErrParse"})
       => link.ver[ret.cid] >= TLS13
  /\ (ret.op = "Connect" /\ ret.info = {TLS12})
       => /\ ret.err = "ErrHandshake"
          /\ ret.cid = 0
          /\ link.pc \in {"aborted", "backoff"}

\* a reconnect attempt to a Hub that offers only TLS 1.2 has just failed
TLSFloorWitness ==
  /\ ret.op = "Connect"
  /\ ret.info = {TLS12}
  /\ ret.err = "ErrHandshake"
  /\ link.pc = "backoff"
  /\ link.open = {}

\* C27: after a successful reconnect the heartbeats are written to the new
\* connection, not to the closed one, and the first of them is written within
\* one heartbeat interval of the reconnect, that is by the ticker's first tick
\* after it: once that tick is done and the new connection is still the open
\* one, a heartbeat has been written to it.
HeartbeatAfterReconnect ==
  /\ (beat.pc = "write" /\ beat.ticked) => beat.target = link.conn
  /\ (Len(link.ver) >= 2 /\ beat.ticked /\ beat.pc = "wait" /\ link.conn \in link.open /\ ~Stopped)
       => beat.sent

\* C29: after Close the Listen goroutine terminates, whether it was blocked in a
\* read, waiting in the reconnect backoff or in a reconnect attempt; once
\* stopCh is closed no reconnect attempt is started, and when the goroutine and
\* Close are done no connection is left open.
ListenerStops ==
  /\ (link.close # "idle") ~> (link.pc \in {"done", "crashed"})
  /\ [][(link.close # "idle" /\ link.pc # "connect") => link'.pc # "connect"]_vars
  /\ []((link.pc = "done" /\ link.close = "closed") => link.open = {})

\* Close found the goroutine waiting in the backoff after the loss of a connection
\* that a reconnect had made, and the goroutine returned
ListenerStopsWitness ==
  /\ link.close = "closed"
  /\ link.pc = "done"
  /\ Len(link.ver) >= 2
  /\ ret.op = "backoff"
  /\ ret.err = "stopped"

(***************************************************************************)
(* Further properties of the RentalExecutor                                *)
(***************************************************************************)

\* a port of the range that is actively allocated or still inside its grace period
PortBusy(port) ==
  /\ port \in DOMAIN allocations
  /\ \/ allocations[port].ReleasedAt = Nil
     \/ now - allocations[port].ReleasedAt < PortGrace

\* a StartRental call that is about to allocate its port takes its step
AllocateStepTaken ==
  \E f \in BagToSet(calls) :
    f.op = "start" /\ f.pc = "allocate" /\ CopiesIn(f, calls') < CopiesIn(f, calls)

\* C31: start_rental fails with NoPortsAvailable exactly when every port of the
\* range is actively allocated or still inside its grace period, and the failing
\* call creates no container, records no session and changes no port allocation.
NoPortsExactlyWhenExhausted ==
  [][AllocateStepTaken =>
       IF \A port \in PortRange : PortBusy(port)
       THEN /\ ret'.op = "start"
            /\ ret'.err = "ErrNoAvailablePorts"
            /\ allocations' = allocations
            /\ containers' = containers
            /\ activeRentals' = activeRentals
       ELSE /\ ret'.op = "none"
            /\ allocations' # allocations]_vars

\* a start_rental call has failed with NoPortsAvailable while one port was
\* allocated and the other one released but still inside its grace period
NoPortsExactlyWhenExhaustedWitness ==
  /\ ret.op = "start"
  /\ ret.err = "ErrNoAvailablePorts"
  /\ \E port \in PortRange : port \in DOMAIN allocations /\ allocations[port].ReleasedAt = Nil
  /\ \E port \in PortRange : port \in DOMAIN allocations /\ allocations[port].ReleasedAt # Nil

(***************************************************************************)
(* Further properties of the command handlers                              *)
(***************************************************************************)

\* the types that handleCommand has a case for
KnownTypes == {"start_rental", "stop_rental", "start_job", "stop_job"}

\* handleCommand is called with a command
CommandArrives == cmd.pc = "idle" /\ numCmds' = numCmds + 1

\* the refusal of a command invokes neither the executor nor the mining
\* daemon and leaves the node as it was
RefusedUntouched ==
  /\ cmd' = Idle
  /\ UNCHANGED <<allocations, activeRentals, containers, calls, cleanups>>
  /\ UNCHANGED <<miningState, miningContainerID, pausedGPUs, miners, miningStarts>>

\* C32: a command of unknown type is acknowledged with status error and the text
\* "unknown command", a start_rental or stop_rental command without a session id
\* is acknowledged with status error, and in both cases neither the executor nor
\* the mining daemon is invoked and the state of the node is unchanged.
BadCommandRefused ==
  [][CommandArrives =>
       /\ ret'.op \in {"ack", "dispatch"}
       /\ ret'.type \notin KnownTypes
            => /\ ret'.op = "ack"
               /\ ret'.err = "error"
               /\ ret'.text = <<"unknown command">>
               /\ RefusedUntouched
       /\ (ret'.type \in KnownTypes /\ ret'.sid = "")
            => /\ ret'.op = "ack"
               /\ ret'.err = "error"
               /\ RefusedUntouched]_vars

\* a command of unknown type was refused while a rental was recorded
BadCommandRefusedWitness ==
  /\ ret.op = "ack"
  /\ ret.type = "ping"
  /\ ret.err = "error"
  /\ ret.text = <<"unknown command">>
  /\ activeRentals # <<>>

\* a StartRental call that has passed the health poll takes its last step
RecordStepTaken(f) ==
  f.op = "start" /\ f.pc = "record" /\ CopiesIn(f, calls') < CopiesIn(f, calls)

\* C33: a successful start_rental returns the request's host, the port allocated
\* for this call, the user "ubuntu", the command "ssh -p <port> ubuntu@<host>" and
\* the id of the container it created, and records a session whose ssh_port and
\* container_id are the returned ones and whose stopped_at is unset.
StartReturnsConnectionInfo ==
  [][\A f \in BagToSet(calls) : RecordStepTaken(f) =>
       /\ ret'.op = "start" /\ ret'.sid = f.sid /\ ret'.err = "ok"
       /\ ret'.host = RequestHost(f.sid)
       /\ ret'.port = f.port
       /\ f.port \in PortRange
       /\ ret'.user = "ubuntu"
       /\ \/ ret'.port = 1 /\ ret'.host = "node1.example"
               /\ ret'.command = "ssh -p 1 ubuntu@node1.example"
          \/ ret'.port = 1 /\ ret'.host = "node2.example"
               /\ ret'.command = "ssh -p 1 ubuntu@node2.example"
          \/ ret'.port > 1
               /\ ret'.command = "ssh -p " \o ToString(ret'.port) \o " ubuntu@" \o ret'.host
       /\ ret'.cid = f.cid
       /\ f.cid \in DOMAIN containers /\ containers[f.cid].name = f.sid
       /\ f.sid \in DOMAIN activeRentals'
       /\ activeRentals'[f.sid].SSHPort = ret'.port
       /\ activeRentals'[f.sid].ContainerID = ret'.cid
       /\ activeRentals'[f.sid].StoppedAt = Nil]_vars

\* a start_rental call has returned the connection info of port 2 and the
\* session is recorded with that port
StartReturnsConnectionInfoWitness ==
  /\ ret.op = "start"
  /\ ret.err = "ok"
  /\ ret.port = 2
  /\ ret.command = "ssh -p 2 ubuntu@node2.example"
  /\ ret.sid \in DOMAIN activeRentals
  /\ activeRentals[ret.sid].SSHPort = 2

(***************************************************************************)
(* The rental HTTP API (internal/api): RentalHandler                       *)
(*                                                                         *)
(* The handler reaches the executor through RentalExecutorInterface. An   *)
(* error is the chain of its wrappings, outermost first; errors.Is looks  *)
(* for a sentinel anywhere in the chain.                                   *)
(***************************************************************************)

\* errors.Is(err, target)
ErrorsIs(err, target) == \E i \in 1..Len(err) : err[i] = target

\* the errors StartRental returns
StartRentalErrors ==
  { <<"ErrSessionAlreadyActive">>,
    <<"failed to allocate port", "ErrNoAvailablePorts">>,
    <<"failed to create container", "failed to ensure image", "failed to pull image">>,
    <<"failed to create container", "ErrCreate">>,
    <<"failed to start container", "ErrStart">>,
    <<"failed health check", "ErrContainerNotHealthy">>,
    <<"failed health check", "ErrContainerStopped">>,
    <<"failed health check", "ErrCancelled">>,
    <<"failed health check", "failed to inspect container", "ErrInspect">> }

\* the errors StopRental returns
StopRentalErrors ==
  { <<"ErrSessionNotFound">>, <<"failed to stop container", "ErrStop">> }

\* the errors GetRentalStatus returns
GetRentalStatusErrors == { <<"ErrSessionNotFound">> }

\* writeJSON / writeError: the response written for a request; cause is the
\* executor error behind it, <<>> when there is none
Response(endpoint, status, code, sid, port, cause) ==
  [op |-> "http", endpoint |-> endpoint, status |-> status, code |-> code, sid |-> sid,
   port |-> port, cause |-> cause, err |-> code, cid |-> 0, again |-> FALSE]

\* HandleStartRental: the status and code for an error of StartRental
StartRentalStatus(err) ==
  IF ErrorsIs(err, "ErrSessionAlreadyActive") THEN <<409, "RENTAL_EXISTS">>
  ELSE IF ErrorsIs(err, "ErrContainerNotHealthy") THEN <<503, "CONTAINER_NOT_READY">>
  ELSE <<500, "INTERNAL_ERROR">>

\* HandleStopRental, HandleGetStatus: the status and code for an error of
\* StopRental or GetRentalStatus
LookupStatus(err) ==
  IF ErrorsIs(err, "ErrSessionNotFound") THEN <<404, "RENTAL_NOT_FOUND">>
  ELSE <<500, "INTERNAL_ERROR">>

\* the handler itself keeps no state
ApiUnchanged ==
  /\ UNCHANGED <<now, portVars, portOps, chanVars, shutdown, activeRentals, containers, cleanups,
                 numCalls>>
  /\ UNCHANGED <<miningVars, hubVars>>

\* HandleStartRental up to the call of StartRental: a request is refused, or the
\* handler enters the executor
ApiStartRequest(method, body, sid, gpu, key) ==
  /\ IF method # "POST"
     THEN ret' = Response("start", 405, "METHOD_NOT_ALLOWED", "", 0, <<>>) /\ calls' = calls
     ELSE IF body = "bad"
     THEN ret' = Response("start", 400, "INVALID_REQUEST", "", 0, <<>>) /\ calls' = calls
     ELSE IF sid = ""
     THEN ret' = Response("start", 400, "MISSING_SESSION_ID", "", 0, <<>>) /\ calls' = calls
     ELSE IF gpu = ""
     THEN ret' = Response("start", 400, "MISSING_GPU_DEVICE_ID", "", 0, <<>>)
          /\ calls' = calls
     ELSE IF key = ""
     THEN ret' = Response("start", 400, "MISSING_SSH_KEY", "", 0, <<>>) /\ calls' = calls
     ELSE /\ BagCardinality(calls) < NumCallers
          /\ calls' = AddTo(calls, Frame("start", sid, "api"))
          /\ ret' = NoResult
  /\ ApiUnchanged

\* HandleStartRental from the return of StartRental on
ApiStartReturn(f) ==
  /\ f.op = "start"
  /\ f.pc = "api"
  /\ calls' = TakeFrom(calls, f)
  /\ \/ \E port \in PortRange : ret' = Response("start", 200, "", f.sid, port, <<>>)
     \/ \E err \in StartRentalErrors :
          ret' = Response("start", StartRentalStatus(err)[1], StartRentalStatus(err)[2],
                          "", 0, err)
  /\ ApiUnchanged

\* HandleStopRental up to the call of StopRental
ApiStopRequest(method, body, sid) ==
  /\ IF method # "POST"
     THEN ret' = Response("stop", 405, "METHOD_NOT_ALLOWED", "", 0, <<>>) /\ calls' = calls
     ELSE IF body = "bad"
     THEN ret' = Response("stop", 400, "INVALID_REQUEST", "", 0, <<>>) /\ calls' = calls
     ELSE IF sid = ""
     THEN ret' = Response("stop", 400, "MISSING_SESSION_ID", "", 0, <<>>) /\ calls' = calls
     ELSE /\ BagCardinality(calls) < NumCallers
          /\ calls' = AddTo(calls, Frame("stop", sid, "api"))
          /\ ret' = NoResult
  /\ ApiUnchanged

\* HandleStopRental from the return of StopRental on
ApiStopReturn(f) ==
  /\ f.op = "stop"
  /\ f.pc = "api"
  /\ calls' = TakeFrom(calls, f)
  /\ \/ ret' = Response("stop", 200, "", f.sid, 0, <<>>)
     \/ \E err \in StopRentalErrors :
          ret' = Response("stop", LookupStatus(err)[1], LookupStatus(err)[2], "", 0, err)
  /\ ApiUnchanged

\* HandleGetStatus
ApiGetStatus(method, sid) ==
  /\ IF method # "GET"
     THEN ret' = Response("status", 405, "METHOD_NOT_ALLOWED", "", 0, <<>>)
     ELSE IF sid = ""
     THEN ret' = Response("status", 400, "MISSING_SESSION_ID", "", 0, <<>>)
     ELSE \/ \E port \in PortRange : ret' = Response("status", 200, "", sid, port, <<>>)
          \/ \E err \in GetRentalStatusErrors :
               ret' = Response("status", LookupStatus(err)[1], LookupStatus(err)[2],
                               "", 0, err)
  /\ calls' = calls
  /\ ApiUnchanged

Methods == {"GET", "POST"}
Bodies == {"json", "bad"}
RequestSessionIDs == SessionIDs \cup {""}
RequestGPUs == GPUs \cup {""}
RequestKeys == {"", "key"}

NextApi ==
  \/ \E method \in Methods, body \in Bodies, sid \in RequestSessionIDs,
        gpu \in RequestGPUs, key \in RequestKeys :
       ApiStartRequest(method, body, sid, gpu, key)
  \/ \E f \in BagToSet(calls) : ApiStartReturn(f)
  \/ \E method \in Methods, body \in Bodies, sid \in RequestSessionIDs :
       ApiStopRequest(method, body, sid)
  \/ \E f \in BagToSet(calls) : ApiStopReturn(f)
  \/ \E method \in Methods, sid \in RequestSessionIDs : ApiGetStatus(method, sid)

SpecApi == Init /\ [][NextApi]_vars

\* the executor error behind the last response was an image pull failure
ImagePullFailed(err) == ErrorsIs(err, "failed to pull image")

\* C34: on the rental HTTP API every executor error is answered by its kind:
\* session already active with 409 RENTAL_EXISTS, container not healthy and
\* image pull failure with 503 CONTAINER_NOT_READY, session not found with 404
\* RENTAL_NOT_FOUND, any other executor error with 500 INTERNAL_ERROR.
ErrorsMappedByKind ==
  (ret.op = "http" /\ ret.cause # <<>>) =>
    LET answer == <<ret.status, ret.code>> IN
      IF ErrorsIs(ret.cause, "ErrSessionAlreadyActive") THEN answer = <<409, "RENTAL_EXISTS">>
      ELSE IF ErrorsIs(ret.cause, "ErrContainerNotHealthy") \/ ImagePullFailed(ret.cause)
           THEN answer = <<503, "CONTAINER_NOT_READY">>
      ELSE IF ErrorsIs(ret.cause, "ErrSessionNotFound") THEN answer = <<404, "RENTAL_NOT_FOUND">>
      ELSE answer = <<500, "INTERNAL_ERROR">>

\* the cleanup task t takes the step it is waiting at
CleanupStepTaken(t, pc) ==
  /\ t.pc = pc
  /\ CopiesIn(t, cleanups') < CopiesIn(t, cleanups)

\* C35: a cleanup task touches only the session instance whose stop scheduled
\* it: the entry it erases is the one of the container it was scheduled for,
\* and the port it releases is allocated to its own session.
CleanupTouchesOwnInstance ==
  [][\A t \in BagToSet(cleanups) :
       /\ (CleanupStepTaken(t, "delete") /\ activeRentals' # activeRentals)
            => activeRentals[t.sid].ContainerID = t.cid
       /\ (CleanupStepTaken(t, "release") /\ allocations' # allocations)
            => allocations[t.port].SessionID = t.sid]_vars

\* a session in activeRentals refers to this port as its own
SessionRefersTo(port) ==
  \E sid \in DOMAIN activeRentals :
    /\ activeRentals[sid].SSHPort = port
    /\ allocations[port].SessionID = sid

\* a StartRental call that is still in progress was given this port
StartHolds(port) ==
  \E f \in BagToSet(calls) :
    /\ f.op = "start"
    /\ f.port = port
    /\ f.sid = allocations[port].SessionID

\* C36: every allocation of the PortManager that is not released belongs to a
\* session in activeRentals or to a StartRental call still in progress.
NoOrphanPort ==
  \A port \in DOMAIN allocations :
    allocations[port].ReleasedAt = Nil => (SessionRefersTo(port) \/ StartHolds(port))

\* the handler of the Hub command writes its ack in this step
HandlerEnds == cmd.pc # "idle" /\ cmd' = Idle

\* the rentals that may hold a GPU: the sessions in activeRentals, and the one
\* that the handler of a start_rental command is starting
RentalsOf(rentals, c) ==
  Cardinality(DOMAIN rentals) + (IF c.type = "start_rental" THEN 1 ELSE 0)

\* C37: pausedGPUs holds only GPUs of rentals that are being started or are in
\* activeRentals, one for each at most; when a start_rental command has failed
\* its GPU is not in pausedGPUs, and when a stop_rental command has stopped a
\* rental the GPUs left are those of the other rentals.
RentedGPUsOfRentalsOnly ==
  [][/\ Cardinality(pausedGPUs') <= RentalsOf(activeRentals', cmd')
     /\ (HandlerEnds /\ cmd.type = "start_rental" /\ cmd.pc = "returned" /\ cmd.err # "ok")
          => cmd.gpu \notin pausedGPUs'
     /\ (HandlerEnds /\ cmd.type = "stop_rental" /\ cmd.pc = "resume")
          => Cardinality(pausedGPUs')
               <= Cardinality(DOMAIN activeRentals' \ {cmd.sid})]_vars

(***************************************************************************)
(* Shutdown (cmd/node/main.go, lines 479-506)                              *)
(*                                                                         *)
(* main closes MiningDaemon.stopCh and calls Stop. Start, PauseForRental   *)
(* and ResumeAfterRental never read stopCh; only the select of MonitorLoop *)
(* does, and it may still serve a tick that is ready at the same time.     *)
(* Calls made before the signal go on: the calls of Start in miningStarts  *)
(* run when they get the lock.                                             *)
(***************************************************************************)

\* everything that neither main nor the MiningDaemon owns
NotShutdown ==
  <<now, portVars, portOps, chanVars, activeRentals, containers, calls, cleanups, numCalls,
    hubVars, miningOps>>

\* main.go, line 488: miningDaemon.Close() closes stopCh
MainClose ==
  /\ shutdown = "running"
  /\ shutdown' = "closed"
  /\ ret' = NoResult
  /\ UNCHANGED <<miningState, miningContainerID, pausedGPUs, miners, miningStarts>>
  /\ UNCHANGED NotShutdown

\* main.go, lines 489-493: miningDaemon.Stop(shutdownMiningCtx)
MainStop ==
  /\ shutdown = "closed"
  /\ shutdown' = "stopped"
  /\ Stop
  /\ UNCHANGED NotShutdown

\* the node makes new calls only before the signal
NextShutdown ==
  \/ shutdown = "running" /\ CallStart
  \/ \E gpus \in SUBSET GPUs : shutdown = "running" /\ CallPauseForRental(gpus)
  \/ \E gpus \in SUBSET GPUs : shutdown = "running" /\ CallResumeAfterRental(gpus)
  \/ \E by \in BagToSet(miningStarts) : RunStart(by)
  \/ MonitorTick
  \/ MinerDies
  \/ MainClose
  \/ MainStop

SpecShutdown == Init /\ [][NextShutdown]_vars

\* C38: once shutdown has stopped the MiningDaemon (Close, then Stop), no
\* mining container is created, whatever call of Start was still waiting.
NoMinerAfterShutdown ==
  [][shutdown = "stopped" => DOMAIN miners' \subseteq DOMAIN miners]_vars

\* func (re *RentalExecutor) ListActiveRentals() []*RentalState
ListActiveRentals == DOMAIN activeRentals

\* a StartRental call for this session has its port and has not yet recorded
\* the session or begun its rollback
StartInProgress(sid) ==
  \E f \in BagToSet(calls) :
    /\ f.op = "start"
    /\ f.sid = sid
    /\ f.pc \in {"create", "start", "health"}

\* a caller enters StopRental for this session in this step
StopEntered(sid) ==
  /\ numCalls' = numCalls + 1
  /\ \/ ret'.op = "stop" /\ ret'.sid = sid
     \/ \E f \in BagToSet(calls') :
          f.op = "stop" /\ f.sid = sid /\ CopiesIn(f, calls') > CopiesIn(f, calls)

\* C39: while a StartRental call for a session is in progress the session is not
\* in activeRentals (GetRentalStatus returns ErrSessionNotFound), ListActiveRentals
\* leaves it out, and a StopRental for it returns ErrSessionNotFound and touches
\* neither a port nor a container.
StartingSessionHidden ==
  [][\A sid \in SessionIDs :
       StartInProgress(sid) =>
         /\ ~SessionPresent(sid)
         /\ sid \notin ListActiveRentals
         /\ StopEntered(sid) =>
              /\ ret'.op = "stop"
              /\ ret'.err = "ErrSessionNotFound"
              /\ allocations' = allocations
              /\ containers' = containers
              /\ activeRentals' = activeRentals]_vars

(***************************************************************************)
(* Further properties of the Hub channel                                   *)
(***************************************************************************)

\* C40: the ack of a command is written only to the connection the command was
\* read on: the write goes to the listener's connection right after the handler
\* of the command read on it, a write to a connection that is lost or closed
\* delivers nothing and the ack is dropped, and no ack is pending when a later
\* connection is made.
AckOnlyWhereRead ==
  [][/\ ret'.op = "WriteAck"
          => /\ ret'.cid = link.lconn
             /\ link.lconn = link.conn
             /\ Len(link.log) >= 1
             /\ link.log[Len(link.log)] = <<"cmd", ret'.info>>
             /\ (ret.op = "OnCommand" => ret.cid = ret'.cid /\ ret.info = ret'.info)
             /\ (link.lconn \notin link.open => ret'.err = "ErrWrite")
             /\ link'.ack = ""
     /\ (ret'.op = "Connect" /\ ret'.err = "ok")
          => /\ link.ack = ""
             /\ link'.ack = ""
             /\ ret'.cid \notin link.open]_vars

\* on a connection made by a reconnect, the write of an ack has failed because
\* the connection was lost or closed while the handler ran; the ack is dropped
AckOnlyWhereReadWitness ==
  /\ ret.op = "WriteAck"
  /\ ret.err = "ErrWrite"
  /\ Len(link.ver) >= 2
  /\ ret.cid = link.conn
  /\ link.ack = ""

====
